---- MODULE Spec2Model ----
(***************************************************************************)
(* Placement and terrain engine of generate_map.py (rcman/projectgodot).   *)
(*                                                                         *)
(* Number representation.  The program computes on floats; the model       *)
(* computes on integers:                                                   *)
(*   - a length or coordinate is an integer count of 1/50 world unit       *)
(*     (2.5 world units = 125), so squared distances are exact;            *)
(*   - a height is an integer count of 1/10000 world unit;                 *)
(*   - random.random() is a level u in 0..UnitLevels-1 standing for        *)
(*     u/UnitLevels, so 0.0 is a possible draw and 1.0 is not;             *)
(*   - an angle is one of the twelve directions of Dirs, whose sine and    *)
(*     cosine are exact fractions of 5.                                    *)
(* A random generator is either seeded, and then a deterministic stream,   *)
(* or unseeded (Free), and then every draw is any value of its range.      *)
(***************************************************************************)
EXTENDS Integers, Sequences, FiniteSets, TLC

VARIABLES
    cfg,            \* generation parameters (module-level configuration)
    rng,            \* state of the global `random` generator
    \* ---- poisson_disc_sampling / generate_poisson_points_in_area
    ppc,            \* position in the sampler: idle, loop, try, done
    area,           \* <<x_min, z_min>> of the wrapper call
    width, height, radius, samples,
    prng,           \* the sampler's own random.Random(seed)
    grid, points, spawn_points, spawn_index, attempt,
    world_points,   \* the value returned to the caller
    \* ---- generate_control_points / sample_path
    path_pc,        \* idle, ctrl (building control points), ready, sampled
    ctrl_call,      \* <<length, num_points, wander>> of generate_control_points
    ctrl_pts,       \* the control points
    path_samples,   \* the `samples` argument of sample_path
    path_pts,       \* the value sample_path returned
    tan_call,       \* the last tangent_at(path_pts, i): i, whether it raised,
                    \* and the value <<dx, dz, l>> it returned (i = -1: none)
    \* ---- select_asset_for_biome
    sel_pc,         \* idle, returned
    sel_biome,      \* the `biome` argument
    sel_available,  \* the `available_roles` argument (a list)
    selected,       \* the returned role, or the exception raised
    \* ---- terrain height field
    terrain_noise_cache,  \* _terrain_noise_cache: lattice key -> noise value
    heightmap_cache,      \* _heightmap_cache: cache key -> height
    t_pc,           \* idle, returned, cleared
    t_args,         \* <<x, z, path_pts>> of the last get_terrain_height call
    t_height,       \* the value it returned
    first_returned, \* observer: arguments -> the value the first call with
                    \* them returned since the last clear_terrain_cache()
    t_repeated,     \* observer: the last call repeated an earlier call's
                    \* arguments (no clear in between)
    \* ---- generate_placements
    pc,             \* idle, clearings, poisson, trees, general, cluster,
                    \* grass_poisson, grass, done, error
    main_path,      \* the path_pts argument
    available,      \* list(tscn_paths.keys())
    clearings, ponds,
    clearing_i,     \* generate_clearings' loop index
    poisson_points, grass_points,
    pt_i,           \* number of sample points the current pass has handled
    placements,     \* the placement records, in order
    placed_by,      \* observer: the step that appended each placement
    placed_positions,   \* the ledger: (x, z, min_dist)
    sat_parent,     \* add_cluster_objects: <<x, z, parent_role>>
    sat_left,       \* satellites still to attempt
    cluster_candidates,
    \* ---- check_collision
    col_call,       \* one call of check_collision: its arguments placed, x,
                    \* z, min_dist, whether it returned, and the result
    \* ---- the main program
    main_pc,        \* off, start, step4, paths
    run,            \* 0 outside the main program, else the number of the run
    world,          \* what steps 1 to 3 find: the roles resolved by name (in
                    \* the order of the role table), the set of the roles
                    \* resolved by fuzzy matching, the new tree pack if any
    tscn_paths,     \* the keys of tscn_paths, in order
    secondary_paths,
    first_run       \* observer: the outputs of the first run

poissonVars == <<ppc, area, width, height, radius, samples, prng,
                 grid, points, spawn_points, spawn_index, attempt, world_points>>

pathVars == <<path_pc, ctrl_call, ctrl_pts, path_samples, path_pts, tan_call>>

selectVars == <<sel_pc, sel_biome, sel_available, selected>>

terrainVars == <<terrain_noise_cache, heightmap_cache, t_pc, t_args, t_height,
                 first_returned, t_repeated>>

placeVars == <<pc, main_path, available, clearings, ponds, clearing_i,
               poisson_points, grass_points, pt_i, placements, placed_by,
               placed_positions, sat_parent, sat_left, cluster_candidates>>

collisionVars == <<col_call>>

mainVars == <<main_pc, run, world, tscn_paths, secondary_paths, first_run>>

vars == <<cfg, rng, poissonVars, pathVars, selectVars, terrainVars, placeVars,
          collisionVars, mainVars>>

\* what the sampler, the path functions and the selection leave alone
outsidePoisson == <<cfg, rng, pathVars, selectVars, terrainVars, placeVars,
                    collisionVars, mainVars>>
outsidePath == <<cfg, poissonVars, selectVars, terrainVars, placeVars,
                 collisionVars, mainVars>>
outsideSelect == <<cfg, poissonVars, pathVars, terrainVars, placeVars,
                   collisionVars, mainVars>>
outsideTerrain == <<cfg, rng, poissonVars, pathVars, selectVars, placeVars,
                    collisionVars, mainVars>>
outsideCollision == <<cfg, rng, poissonVars, pathVars, selectVars,
                      terrainVars, placeVars, mainVars>>

-----------------------------------------------------------------------------
(* Bounds of the model                                                     *)

\* number of levels of one random.random() draw
UnitLevels == 4
\* number of values of one random.uniform(a, b) draw of a distance
DistLevels == 2
\* largest attempt budget (samples) of a direct sampler call
MaxSamples == 2
\* number of directions an angle is drawn from (the first ones of Dirs)
AngleLevels == 4
\* largest number of control points of a generated path
MaxCtrlPoints == 4
\* largest `samples` argument of sample_path
MaxPathSamples == 3
\* number of values of one random.uniform draw of a scale
ScaleLevels == 1
\* number of values of one draw of a rotation angle or of a tilt
RotLevels == 1
\* number of values of one draw of a satellite's distance from its parent
SatDistLevels == 2
\* number of directions a satellite's angle is drawn from (the first of Dirs)
SatAngleLevels == 2

-----------------------------------------------------------------------------
(* Arithmetic helpers                                                      *)

Max(a, b) == IF a >= b THEN a ELSE b
Min(a, b) == IF a <= b THEN a ELSE b

\* distance_squared(x1, z1, x2, z2)
distance_squared(x1, z1, x2, z2) ==
    LET dx == x2 - x1
        dz == z2 - z1
    IN  dx * dx + dz * dz

\* The twelve directions an angle is drawn from: (cos, sin) * 5
Dirs == << <<5, 0>>, <<-3, 4>>, <<-4, -3>>, <<3, -4>>, <<0, 5>>, <<4, 3>>,
           <<-5, 0>>, <<0, -5>>, <<3, 4>>, <<-4, 3>>, <<-3, -4>>, <<4, -3>> >>

\* a value rounded down to a multiple of 5, so that a step of that length
\* along a direction of Dirs has integer components
Floor5(v) == v - (v % 5)

-----------------------------------------------------------------------------
(* Random generators                                                       *)

\* The state of a generator that was not seeded: its draws are unconstrained.
Free == -1

\* one step of a seeded generator
RngStep(s) == (25173 * s + 13849) % 65536

\* random.Random(seed) / random.seed(seed)
RngSeed(seed) == RngStep(RngStep(seed % 65536))

\* the values one draw below n can take in generator state s
Rand(s, n) == IF s = Free THEN 0..(n - 1) ELSE {(s \div 16) % n}

\* the generator state after k draws
RECURSIVE Adv(_, _)
Adv(s, k) == IF s = Free \/ k = 0 THEN s ELSE Adv(RngStep(s), k - 1)

\* random.uniform(lo, hi) of a length: level i of n, on the 5-unit raster
UniformLen(lo, hi, i, n) == Floor5(lo + ((hi - lo) * i) \div n)

\* random.uniform(lo, hi) of a distance: level i of DistLevels
UniformDist(lo, hi, i) == UniformLen(lo, hi, i, DistLevels)

-----------------------------------------------------------------------------
(* Poisson disc sampling                                                   *)

\* int(x / cell_size) with cell_size = radius / sqrt(2), for x >= 0:
\* the largest k with k * radius <= x * sqrt(2)
CellIndex(x, r) ==
    CHOOSE k \in 0..((2 * x) \div r + 1) :
        /\ k * k * r * r <= 2 * x * x
        /\ 2 * x * x < (k + 1) * (k + 1) * r * r

\* math.ceil(w / cell_size): the least k with k * radius >= w * sqrt(2)
CeilCells(w, r) ==
    CHOOSE k \in 0..((2 * w) \div r + 1) :
        /\ k * k * r * r >= 2 * w * w
        /\ k = 0 \/ (k - 1) * (k - 1) * r * r < 2 * w * w

grid_width == CeilCells(width, radius)
grid_height == CeilCells(height, radius)

EmptyGrid(w, h, r) ==
    [c \in (0..(CeilCells(w, r) - 1)) \X (0..(CeilCells(h, r) - 1)) |-> 0]

\* _is_valid_point with the distance test left out
IsValidPointNoDistance(candidate) ==
    ~(candidate[1] < 0 \/ candidate[1] >= width
        \/ candidate[2] < 0 \/ candidate[2] >= height)

\* _is_valid_point(candidate, width, height, cell_size, radius, points, grid)
IsValidPoint(candidate) ==
    IF candidate[1] < 0 \/ candidate[1] >= width
         \/ candidate[2] < 0 \/ candidate[2] >= height
    THEN FALSE
    ELSE LET cell_x == CellIndex(candidate[1], radius)
             cell_y == CellIndex(candidate[2], radius)
         IN  \A sx \in Max(0, cell_x - 2)..Min(cell_x + 2, grid_width - 1) :
             \A sy \in Max(0, cell_y - 2)..Min(cell_y + 2, grid_height - 1) :
                 grid[<<sx, sy>>] >= 1 =>
                     LET other == points[grid[<<sx, sy>>]]
                     IN  ~(distance_squared(candidate[1], candidate[2],
                                            other[1], other[2]) < radius * radius)

\* poisson_disc_sampling entered with the start point also put in the output
PoissonBeginSeedInPoints(w, h, r, smp, seed) ==
    /\ width' = w
    /\ height' = h
    /\ radius' = r
    /\ samples' = smp
    /\ prng' = IF seed = Free THEN Free ELSE RngSeed(seed)
    /\ grid' = [EmptyGrid(w, h, r) EXCEPT
                  ![<<CellIndex(w \div 2, r), CellIndex(h \div 2, r)>>] = 1]
    /\ points' = << <<w \div 2, h \div 2>> >>
    /\ spawn_points' = << <<w \div 2, h \div 2>> >>
    /\ spawn_index' = 0
    /\ attempt' = 0
    /\ world_points' = <<>>
    /\ ppc' = "loop"

\* entry of poisson_disc_sampling(w, h, r, smp, seed): the state at `while`
PoissonBegin(w, h, r, smp, seed) ==
    /\ width' = w
    /\ height' = h
    /\ radius' = r
    /\ samples' = smp
    /\ prng' = IF seed = Free THEN Free ELSE RngSeed(seed)
    /\ grid' = EmptyGrid(w, h, r)
    /\ points' = <<>>
    /\ spawn_points' = << <<w \div 2, h \div 2>> >>
    /\ spawn_index' = 0
    /\ attempt' = 0
    /\ world_points' = <<>>
    /\ ppc' = "loop"

\* while spawn_points: spawn_index = rng.randint(0, len(spawn_points) - 1)
PoissonPick ==
    /\ ppc = "loop"
    /\ spawn_points # <<>>
    /\ \E k \in Rand(prng, Len(spawn_points)) :
           spawn_index' = k + 1
    /\ prng' = Adv(prng, 1)
    /\ attempt' = 0
    /\ ppc' = "try"
    /\ UNCHANGED <<outsidePoisson, area, width, height, radius, samples,
                   grid, points, spawn_points, world_points>>

\* the candidate of one attempt: direction a (index into Dirs), distance level d
Candidate(spawn_center, a, d) ==
    LET dist == UniformDist(radius, radius * 2, d)
    IN  << spawn_center[1] + (Dirs[a][2] * dist) \div 5,
           spawn_center[2] + (Dirs[a][1] * dist) \div 5 >>

\* one iteration of `for _ in range(samples)`
PoissonTry ==
    /\ ppc = "try"
    /\ attempt < samples
    /\ \E a \in Rand(prng, AngleLevels), d \in Rand(Adv(prng, 1), DistLevels) :
         LET candidate == Candidate(spawn_points[spawn_index], a + 1, d)
         IN  IF IsValidPoint(candidate)
             THEN /\ points' = Append(points, candidate)
                  /\ spawn_points' = Append(spawn_points, candidate)
                  /\ grid' = [grid EXCEPT
                                ![<<CellIndex(candidate[1], radius),
                                    CellIndex(candidate[2], radius)>>]
                                    = Len(points) + 1]
                  /\ ppc' = "loop"
                  /\ UNCHANGED attempt
             ELSE /\ attempt' = attempt + 1
                  /\ UNCHANGED <<points, spawn_points, grid, ppc>>
    /\ prng' = Adv(prng, 2)
    /\ UNCHANGED <<outsidePoisson, area, width, height, radius, samples,
                   spawn_index, world_points>>

\* the exhausted spawn point left in the active list
PoissonExhaust_NoPop ==
    /\ ppc = "try"
    /\ attempt = samples
    /\ ppc' = "loop"
    /\ UNCHANGED <<outsidePoisson, area, width, height, radius, samples, prng,
                   grid, points, spawn_points, spawn_index, attempt,
                   world_points>>

\* if not candidate_accepted: spawn_points.pop(spawn_index)
PoissonExhaust ==
    /\ ppc = "try"
    /\ attempt = samples
    /\ spawn_points' = [i \in 1..(Len(spawn_points) - 1) |->
                           IF i < spawn_index THEN spawn_points[i]
                           ELSE spawn_points[i + 1]]
    /\ ppc' = "loop"
    /\ UNCHANGED <<outsidePoisson, area, width, height, radius, samples, prng,
                   grid, points, spawn_index, attempt, world_points>>

\* world_points = [(x_min + p[0], z_min + p[1]) for p in local_points]
WorldPoints(local_points, x_min, z_min) ==
    [i \in 1..Len(local_points) |->
        <<x_min + local_points[i][1], z_min + local_points[i][2]>>]

\* return points; generate_poisson_points_in_area returns them translated
PoissonReturn ==
    /\ ppc = "loop"
    /\ spawn_points = <<>>
    /\ world_points' = WorldPoints(points, area[1], area[2])
    /\ ppc' = "done"
    /\ UNCHANGED <<outsidePoisson, area, width, height, radius, samples, prng,
                   grid, points, spawn_points, spawn_index, attempt>>

\* generate_poisson_points_in_area(x_min, x_max, z_min, z_max, r, seed)
PoissonInArea(x_min, x_max, z_min, z_max, r, seed) ==
    /\ area' = <<x_min, z_min>>
    /\ PoissonBegin(x_max - x_min, z_max - z_min, r, cfg.POISSON_SAMPLES, seed)

PoissonIdle ==
    /\ ppc = "idle"
    /\ area = <<0, 0>>
    /\ width = 0 /\ height = 0 /\ radius = 1 /\ samples = 0
    /\ prng = Free
    /\ grid = <<>>
    /\ points = <<>>
    /\ spawn_points = <<>>
    /\ spawn_index = 0
    /\ attempt = 0
    /\ world_points = <<>>

-----------------------------------------------------------------------------
(* Path: generate_control_points, catmull_rom, sample_path                 *)

\* random.uniform(lo, hi): level u of UnitLevels
Uniform(lo, hi, u) == lo + ((hi - lo) * u) \div UnitLevels

\* generate_control_points rejecting a count below the spline's four points
GenerateControlPointsBegin_RejectBelowFour(length, num_points, wander) ==
    /\ ctrl_call' = <<length, num_points, wander>>
    /\ IF num_points < 4
       THEN /\ path_pc' = "error"
            /\ UNCHANGED ctrl_pts
       ELSE /\ ctrl_pts' = << <<0, 0>> >>
            /\ path_pc' = "ctrl"

\* generate_control_points(length, num_points, wander): points = [(0.0, 0.0)]
\* and step = length / (num_points - 1), a ZeroDivisionError when num_points
\* is 1
GenerateControlPointsBegin(length, num_points, wander) ==
    /\ ctrl_call' = <<length, num_points, wander>>
    /\ IF num_points = 1
       THEN /\ path_pc' = "error"
            /\ UNCHANGED ctrl_pts
       ELSE /\ ctrl_pts' = << <<0, 0>> >>
            /\ path_pc' = "ctrl"

\* the loop step with step = length / num_points
CtrlStep_StepOverCount ==
    /\ path_pc = "ctrl"
    /\ Len(ctrl_pts) < ctrl_call[2]
    /\ \E u \in Rand(rng, UnitLevels) :
           LET px == ctrl_pts[Len(ctrl_pts)][1]
               pz == ctrl_pts[Len(ctrl_pts)][2]
               step == ctrl_call[1] \div ctrl_call[2]
           IN  ctrl_pts' = Append(ctrl_pts,
                   <<px + Uniform(-ctrl_call[3], ctrl_call[3], u), pz + step>>)
    /\ rng' = Adv(rng, 1)
    /\ UNCHANGED <<outsidePath, path_pc, ctrl_call, path_samples, path_pts,
                   tan_call>>

\* for _ in range(1, num_points): one more control point
CtrlStep ==
    /\ path_pc = "ctrl"
    /\ Len(ctrl_pts) < ctrl_call[2]
    /\ \E u \in Rand(rng, UnitLevels) :
           LET px == ctrl_pts[Len(ctrl_pts)][1]
               pz == ctrl_pts[Len(ctrl_pts)][2]
               step == ctrl_call[1] \div (ctrl_call[2] - 1)
           IN  ctrl_pts' = Append(ctrl_pts,
                   <<px + Uniform(-ctrl_call[3], ctrl_call[3], u), pz + step>>)
    /\ rng' = Adv(rng, 1)
    /\ UNCHANGED <<outsidePath, path_pc, ctrl_call, path_samples, path_pts,
                   tan_call>>

\* return points
CtrlReturn ==
    /\ path_pc = "ctrl"
    /\ Len(ctrl_pts) >= ctrl_call[2]
    /\ path_pc' = "ready"
    /\ UNCHANGED <<outsidePath, rng, ctrl_call, ctrl_pts, path_samples, path_pts,
                   tan_call>>

\* cr1d(a, b, c, d, t) with t = s / n, rounded down to the model's unit
cr1d(a, b, c, d, s, n) ==
    ( (2 * b) * n * n * n
      + (-a + c) * s * n * n
      + (2 * a - 5 * b + 4 * c - d) * s * s * n
      + (-a + 3 * b - 3 * c + d) * s * s * s ) \div (2 * n * n * n)

\* catmull_rom(p0, p1, p2, p3, t) with t = s / n
catmull_rom(p0, p1, p2, p3, s, n) ==
    << cr1d(p0[1], p1[1], p2[1], p3[1], s, n),
       cr1d(p0[2], p1[2], p2[2], p3[2], s, n) >>

\* the spline samples of sample_path, before the last control point is added
SplineSamples(ctrl, n) ==
    LET ext == <<ctrl[1]>> \o ctrl \o <<ctrl[Len(ctrl)]>>
    IN  [k \in 1..((Len(ctrl) - 1) * n) |->
            LET i == (k - 1) \div n + 1
                s == (k - 1) % n
            IN  catmull_rom(ext[i], ext[i + 1], ext[i + 2], ext[i + 3], s, n)]

\* sample_path without its final pts.append(ctrl_pts[-1])
sample_path_NoFinalAppend(ctrl, n) == SplineSamples(ctrl, n)

\* sample_path(ctrl_pts, samples)
sample_path(ctrl, n) == SplineSamples(ctrl, n) \o <<ctrl[Len(ctrl)]>>

\* a caller's sample_path(ctrl_pts, samples); ctrl_pts[0] of an empty list is
\* an IndexError
SamplePath(n) ==
    /\ path_pc = "ready"
    /\ path_samples' = n
    /\ IF ctrl_pts = <<>>
       THEN /\ path_pc' = "error"
            /\ UNCHANGED path_pts
       ELSE /\ path_pts' = sample_path(ctrl_pts, n)
            /\ path_pc' = "sampled"
    /\ UNCHANGED <<outsidePath, rng, ctrl_call, ctrl_pts, tan_call>>

PathIdle ==
    /\ path_pc = "idle"
    /\ ctrl_call = <<0, 0, 0>>
    /\ ctrl_pts = <<>>
    /\ path_samples = 0
    /\ path_pts = <<>>
    /\ tan_call = [i |-> -1, raised |-> FALSE, value |-> <<0, 0, 1>>]

-----------------------------------------------------------------------------
(* Selection: select_asset_for_biome                                       *)

\* biome_weights = BIOMES.get(biome, BIOMES["forest"]): the table as the list
\* of its (category, weight) items, weights in hundredths
BiomeWeights(biome) ==
    IF biome \in DOMAIN cfg.BIOMES THEN cfg.BIOMES[biome]
    ELSE cfg.BIOMES["forest"]

\* the roles of one category that are available, each with the weight
CategoryEntries(category, weight, available_roles) ==
    IF category \in DOMAIN cfg.ASSET_CATEGORIES
    THEN LET roles == cfg.ASSET_CATEGORIES[category]
             here == SelectSeq(roles,
                         LAMBDA role : \E i \in 1..Len(available_roles) :
                                           available_roles[i] = role)
         IN  [i \in 1..Len(here) |-> <<here[i], weight>>]
    ELSE <<>>

\* the `weighted` list, built from item i of the table on
RECURSIVE WeightedFrom(_, _, _)
WeightedFrom(table, i, available_roles) ==
    IF i > Len(table) THEN <<>>
    ELSE CategoryEntries(table[i][1], table[i][2], available_roles)
             \o WeightedFrom(table, i + 1, available_roles)

Weighted(biome, available_roles) ==
    WeightedFrom(BiomeWeights(biome), 1, available_roles)

\* total = sum(w for _, w in weighted)
RECURSIVE TotalWeight(_, _)
TotalWeight(weighted, i) ==
    IF i > Len(weighted) THEN 0
    ELSE weighted[i][2] + TotalWeight(weighted, i + 1)

\* the walk over cumulative weights with r = (u / UnitLevels) * total:
\* `if r <= cumulative: return role`, and weighted[-1][0] after the loop
RECURSIVE WalkWeights(_, _, _, _)
WalkWeights(weighted, i, cumulative, u) ==
    IF i > Len(weighted) THEN weighted[Len(weighted)][1]
    ELSE LET c == cumulative + weighted[i][2]
         IN  IF u * TotalWeight(weighted, 1) <= c * UnitLevels
             THEN weighted[i][1]
             ELSE WalkWeights(weighted, i + 1, c, u)

\* select_asset_for_biome raising when the biome's table names a category
\* that is missing from ASSET_CATEGORIES or has no available member
SelectAssetForBiome_RejectEmptyCategory(biome, available_roles, s) ==
    LET table == BiomeWeights(biome)
        weighted == Weighted(biome, available_roles)
    IN  IF \E i \in 1..Len(table) :
               CategoryEntries(table[i][1], table[i][2], available_roles) = <<>>
        THEN {"IndexError"}
        ELSE {WalkWeights(weighted, 1, 0, u) : u \in Rand(s, UnitLevels)}

\* the roles select_asset_for_biome(biome, available_roles) can return in
\* generator state s, "IndexError" standing for random.choice of an empty list
SelectAssetForBiome(biome, available_roles, s) ==
    LET weighted == Weighted(biome, available_roles)
    IN  IF weighted = <<>>
        THEN IF available_roles = <<>> THEN {"IndexError"}
             ELSE {available_roles[k + 1] : k \in Rand(s, Len(available_roles))}
        ELSE {WalkWeights(weighted, 1, 0, u) : u \in Rand(s, UnitLevels)}

\* a caller's select_asset_for_biome(biome, available_roles)
CallSelectAssetForBiome(biome, available_roles) ==
    /\ sel_biome' = biome
    /\ sel_available' = available_roles
    /\ selected' \in SelectAssetForBiome(biome, available_roles, rng)
    /\ rng' = IF available_roles = <<>> THEN rng ELSE Adv(rng, 1)
    /\ sel_pc' = "returned"
    /\ UNCHANGED outsideSelect

SelectIdle ==
    /\ sel_pc = "idle"
    /\ sel_biome = ""
    /\ sel_available = <<>>
    /\ selected = ""

-----------------------------------------------------------------------------
(* Terrain height field: noise lattice, passes, cache, path flattening     *)

\* heights and noise values are counted in 1/HeightUnit world unit
HeightUnit == 10000

\* noise-space coordinates are counted in 1/NoiseDen lattice step: a world
\* coordinate in 1/50 unit, times TERRAIN_NOISE_SCALE (0.02 = 1/50), times a
\* frequency counted in halves
NoiseDen == 5000

RECURSIVE Pow2(_)
Pow2(i) == IF i = 0 THEN 1 ELSE 2 * Pow2(i - 1)

\* hash((ix, iz, SEED + seed_offset)) & 0x7FFFFFFF: a fixed function of the key
KeyHash(key) ==
    (((key[1] + 1000) * 31 + (key[2] + 1000)) * 31 + cfg.SEED + key[3]) % 65536

\* random.Random(h).random() * 2.0 - 1.0
FreshNoiseValue(key) == (RngSeed(KeyHash(key)) % (2 * HeightUnit)) - HeightUnit

\* _get_noise_value(ix, iz, seed_offset) read through the cache `cache`
GetNoiseValue(cache, key) ==
    IF key \in DOMAIN cache THEN cache[key] ELSE FreshNoiseValue(key)

\* fx * fx * (3 - 2 * fx) for fx = f / NoiseDen
NoiseSmoothstep(f) == (((f * f) \div NoiseDen) * (3 * NoiseDen - 2 * f)) \div NoiseDen

\* the four lattice keys _smooth_noise(x, z, seed_offset) reads
SmoothNoiseKeys(nx, nz, seed_offset) ==
    LET x0 == nx \div NoiseDen
        z0 == nz \div NoiseDen
    IN  {<<x0, z0, seed_offset>>, <<x0 + 1, z0, seed_offset>>,
         <<x0, z0 + 1, seed_offset>>, <<x0 + 1, z0 + 1, seed_offset>>}

\* _smooth_noise(x, z, seed_offset) at noise coordinates nx, nz
SmoothNoise(cache, nx, nz, seed_offset) ==
    LET x0 == nx \div NoiseDen
        z0 == nz \div NoiseDen
        fx == NoiseSmoothstep(nx % NoiseDen)
        fz == NoiseSmoothstep(nz % NoiseDen)
        n00 == GetNoiseValue(cache, <<x0, z0, seed_offset>>)
        n10 == GetNoiseValue(cache, <<x0 + 1, z0, seed_offset>>)
        n01 == GetNoiseValue(cache, <<x0, z0 + 1, seed_offset>>)
        n11 == GetNoiseValue(cache, <<x0 + 1, z0 + 1, seed_offset>>)
        nx0 == (n00 * (NoiseDen - fx) + n10 * fx) \div NoiseDen
        nx1 == (n01 * (NoiseDen - fx) + n11 * fx) \div NoiseDen
    IN  (nx0 * (NoiseDen - fz) + nx1 * fz) \div NoiseDen

\* the sum of _simplex_noise_pass from octave i on, amplitudes counted in
\* units of the last octave's
RECURSIVE OctaveSum(_, _, _, _, _, _, _)
OctaveSum(cache, x, z, octaves, freq2, seed_offset, i) ==
    IF i >= octaves THEN 0
    ELSE SmoothNoise(cache, x * freq2 * Pow2(i), z * freq2 * Pow2(i),
                     seed_offset + i) * Pow2(octaves - 1 - i)
         + OctaveSum(cache, x, z, octaves, freq2, seed_offset, i + 1)

\* _simplex_noise_pass(x, z, octaves, frequency, seed_offset)
SimplexNoisePass(cache, x, z, octaves, freq2, seed_offset) ==
    IF octaves > 0
    THEN OctaveSum(cache, x, z, octaves, freq2, seed_offset, 0)
             \div (Pow2(octaves) - 1)
    ELSE 0

\* _apply_contrast(value, contrast) with mid = 0, contrast in tenths
ApplyContrast(value, contrast10) == (value * contrast10) \div 10

\* _blend_passes(base_value, add_value, blend_type) with blend_weight = 1.0
BlendPasses(base_value, add_value, blend_type) ==
    CASE blend_type = "base" -> base_value
      [] blend_type = "add" -> base_value + Max(0, add_value)
      [] blend_type = "subtract" -> base_value - Max(0, add_value)
      [] blend_type = "mix" -> add_value
      [] OTHER -> base_value

\* the loop over TERRAIN_PASSES from pass pass_idx (counted from 0) on
RECURSIVE PassesFrom(_, _, _, _, _)
\* the contrast-adjusted, scaled noise value of pass pass_idx (counted from 0)
\* at (x, z)
PassValue(cache, x, z, pass_idx) ==
    LET terrain_pass == cfg.TERRAIN_PASSES[pass_idx + 1]
        noise == SimplexNoisePass(cache, x, z, terrain_pass.octaves,
                                  terrain_pass.frequency2, pass_idx * 100)
    IN  (ApplyContrast(noise, terrain_pass.contrast10)
            * terrain_pass.scale10) \div 10

PassesFrom(cache, x, z, pass_idx, h) ==
    IF pass_idx >= Len(cfg.TERRAIN_PASSES) THEN h
    ELSE PassesFrom(cache, x, z, pass_idx + 1,
                    BlendPasses(h, PassValue(cache, x, z, pass_idx),
                                cfg.TERRAIN_PASSES[pass_idx + 1].blend))

\* the height get_terrain_height computes on a cache miss, before flattening
ComputedHeight(cache, x, z) ==
    ((PassesFrom(cache, x, z, 0, 0) + HeightUnit) * cfg.TERRAIN_HEIGHT_SCALE) \div 2

\* the lattice keys the computation of a height reads
RECURSIVE HeightNoiseKeys(_, _, _, _)
HeightNoiseKeys(x, z, pass_idx, i) ==
    IF pass_idx >= Len(cfg.TERRAIN_PASSES) THEN {}
    ELSE LET terrain_pass == cfg.TERRAIN_PASSES[pass_idx + 1]
         IN  IF i >= terrain_pass.octaves
             THEN HeightNoiseKeys(x, z, pass_idx + 1, 0)
             ELSE SmoothNoiseKeys(x * terrain_pass.frequency2 * Pow2(i),
                                  z * terrain_pass.frequency2 * Pow2(i),
                                  pass_idx * 100 + i)
                  \cup HeightNoiseKeys(x, z, pass_idx, i + 1)

\* math.sqrt rounded down, by bisection between lo and hi
RECURSIVE ISqrtIn(_, _, _)
ISqrtIn(n, lo, hi) ==
    IF lo >= hi THEN lo
    ELSE LET mid == (lo + hi + 1) \div 2
         IN  IF mid * mid <= n THEN ISqrtIn(n, mid, hi)
             ELSE ISqrtIn(n, lo, mid - 1)

ISqrt(n) == ISqrtIn(n, 0, Min(n, 40000))

\* min over the path points of the squared distance to (x, z)
MinDistSq(x, z, path, i) ==
    LET d_sqs == {distance_squared(x, z, path[j][1], path[j][2]) :
                     j \in i..Len(path)}
    IN  CHOOSE m \in d_sqs : \A d_sq \in d_sqs : m <= d_sq

\* _apply_path_flattening(h, x, z, path), path not empty
ApplyPathFlattening(h, x, z, path) ==
    LET min_dist == ISqrt(MinDistSq(x, z, path, 1))
        reach == cfg.PATH_FLATTEN_RADIUS * 2
    IN  IF min_dist < reach
        THEN LET blend == Min(reach, min_dist)
                 smooth == (blend * blend * (3 * reach - 2 * blend) * 10)
                               \div ((reach * reach * reach) \div 100)
             IN  (h * smooth) \div 1000
        ELSE h

\* `if path: h = _apply_path_flattening(...)`
Flattened(h, x, z, path) ==
    IF path # <<>> THEN ApplyPathFlattening(h, x, z, path)
    ELSE h

\* cache_key = (round(x * 10), round(z * 10))
CacheKey(x, z) == <<(2 * x + 5) \div 10, (2 * z + 5) \div 10>>

\* what a get_terrain_height call that misses the cache computes and stores
CacheMiss(hc, nc, x, z, path, stored_flattened) ==
    LET h == ComputedHeight(nc, x, z)
        keys == HeightNoiseKeys(x, z, 0, 0)
        stored == IF stored_flattened THEN Flattened(h, x, z, path) ELSE h
    IN  [ value |-> Flattened(h, x, z, path),
          heightmap |-> [k \in DOMAIN hc \cup {CacheKey(x, z)} |->
                            IF k = CacheKey(x, z) THEN stored ELSE hc[k]],
          noise |-> [k \in DOMAIN nc \cup keys |-> GetNoiseValue(nc, k)] ]

\* get_terrain_height storing the height in the cache after flattening it
get_terrain_height_CachingFlattened(hc, nc, x, z, path) ==
    IF CacheKey(x, z) \in DOMAIN hc
    THEN [ value |-> Flattened(hc[CacheKey(x, z)], x, z, path),
           heightmap |-> hc, noise |-> nc ]
    ELSE CacheMiss(hc, nc, x, z, path, TRUE)

\* get_terrain_height returning the cached height as it is, without flattening
get_terrain_height_HitUnflattened(hc, nc, x, z, path) ==
    IF CacheKey(x, z) \in DOMAIN hc
    THEN [ value |-> hc[CacheKey(x, z)], heightmap |-> hc, noise |-> nc ]
    ELSE CacheMiss(hc, nc, x, z, path, FALSE)

\* get_terrain_height(x, z, path_pts) on the caches hc (_heightmap_cache) and
\* nc (_terrain_noise_cache): the value returned and the caches afterwards;
\* path = <<>> stands for None
get_terrain_height(hc, nc, x, z, path) ==
    IF CacheKey(x, z) \in DOMAIN hc
    THEN [ value |-> Flattened(hc[CacheKey(x, z)], x, z, path),
           heightmap |-> hc, noise |-> nc ]
    ELSE CacheMiss(hc, nc, x, z, path, FALSE)

\* a get_terrain_height(x, z, path_pts) call on the module's caches
GetTerrainHeight(x, z, path) ==
    LET r == get_terrain_height(heightmap_cache, terrain_noise_cache, x, z, path)
    IN  /\ t_height' = r.value
        /\ heightmap_cache' = r.heightmap
        /\ terrain_noise_cache' = r.noise

\* clear_terrain_cache()
ClearTerrainCache ==
    /\ terrain_noise_cache' = <<>>
    /\ heightmap_cache' = <<>>

TerrainIdle ==
    /\ terrain_noise_cache = <<>>
    /\ heightmap_cache = <<>>
    /\ t_pc = "idle"
    /\ t_args = <<0, 0, <<>>>>
    /\ t_height = 0
    /\ first_returned = <<>>
    /\ t_repeated = FALSE

-----------------------------------------------------------------------------
(* Placement: asset properties and the checks of generate_placements       *)

\* ASSET_PROPERTIES of the roles of the model: lengths in 1/50 unit, scale in
\* hundredths, heights in 1/HeightUnit, tilt in tenths of a degree
ASSET_PROPERTIES ==
    [ new_tree_pack |->
        [ min_spacing |-> 200, scale_range |-> <<8, 12>>, y_offset |-> 0,
          min_altitude |-> -10 * HeightUnit, max_altitude |-> 50 * HeightUnit,
          randomize_y_rotation |-> TRUE, tilt_angle |-> 20 ],
      tree_bare_1 |->
        [ min_spacing |-> 200, scale_range |-> <<90, 140>>, y_offset |-> 0,
          min_altitude |-> -10 * HeightUnit, max_altitude |-> 20 * HeightUnit,
          randomize_y_rotation |-> TRUE, tilt_angle |-> 50 ],
      rock_boulder_1 |->
        [ min_spacing |-> 200, scale_range |-> <<100, 200>>,
          y_offset |-> -(HeightUnit \div 5),
          min_altitude |-> -10 * HeightUnit, max_altitude |-> 50 * HeightUnit,
          randomize_y_rotation |-> TRUE, tilt_angle |-> 80 ],
      rock_small_1 |->
        [ min_spacing |-> 40, scale_range |-> <<50, 120>>,
          y_offset |-> -(HeightUnit \div 20),
          min_altitude |-> -10 * HeightUnit, max_altitude |-> 30 * HeightUnit,
          randomize_y_rotation |-> TRUE, tilt_angle |-> 150 ],
      bush_round_1 |->
        [ min_spacing |-> 75, scale_range |-> <<70, 120>>, y_offset |-> 0,
          min_altitude |-> -10 * HeightUnit, max_altitude |-> 8 * HeightUnit,
          randomize_y_rotation |-> TRUE, tilt_angle |-> 40 ],
      grass_1 |->
        [ min_spacing |-> 20, scale_range |-> <<60, 110>>, y_offset |-> 0,
          min_altitude |-> -10 * HeightUnit, max_altitude |-> 5 * HeightUnit,
          randomize_y_rotation |-> TRUE, tilt_angle |-> 80 ],
      grass_2 |->
        [ min_spacing |-> 20, scale_range |-> <<60, 110>>, y_offset |-> 0,
          min_altitude |-> -10 * HeightUnit, max_altitude |-> 5 * HeightUnit,
          randomize_y_rotation |-> TRUE, tilt_angle |-> 80 ],
      fern_1 |->
        [ min_spacing |-> 25, scale_range |-> <<60, 110>>, y_offset |-> 0,
          min_altitude |-> -10 * HeightUnit, max_altitude |-> 6 * HeightUnit,
          randomize_y_rotation |-> TRUE, tilt_angle |-> 60 ] ]

\* DEFAULT_ASSET_PROPS
DEFAULT_ASSET_PROPS ==
    [ min_spacing |-> 50, scale_range |-> <<80, 120>>, y_offset |-> 0,
      min_altitude |-> -100 * HeightUnit, max_altitude |-> 100 * HeightUnit,
      randomize_y_rotation |-> TRUE, tilt_angle |-> 50 ]

\* the base name get_asset_props tries second: the role without its "_<n>"
\* suffix when its last character is a digit
BaseName(role) ==
    CASE role = "tree_bare_1" -> "tree_bare"
      [] role = "rock_boulder_1" -> "rock_boulder"
      [] role = "rock_small_1" -> "rock_small"
      [] role = "bush_round_1" -> "bush_round"
      [] role \in {"grass_1", "grass_2"} -> "grass"
      [] role = "fern_1" -> "fern"
      [] role = "flower_1" -> "flower"
      [] role = "real_maple_1" -> "real_maple"
      [] OTHER -> role

\* get_asset_props(role)
get_asset_props(role) ==
    IF role \in DOMAIN ASSET_PROPERTIES THEN ASSET_PROPERTIES[role]
    ELSE IF BaseName(role) \in DOMAIN ASSET_PROPERTIES
         THEN ASSET_PROPERTIES[BaseName(role)]
         ELSE DEFAULT_ASSET_PROPS

\* `word in role` for the words the placement code looks for in role names
Contains(role, word) ==
    word \in ( CASE role \in {"new_tree_pack", "tree_bare_1"} -> {"tree"}
                 [] role = "bush_round_1" -> {"bush"}
                 [] role = "fern_1" -> {"fern"}
                 [] role \in {"grass_1", "grass_2"} -> {"grass", "grass_"}
                 [] role = "flower_1" -> {"flower"}
                 [] role = "rock_small_1" -> {"rock_small"}
                 [] OTHER -> {} )

\* role in roles, for a list
InList(role, roles) == \E i \in 1..Len(roles) : roles[i] = role

\* check_altitude_constraint dropping the upper bound
check_altitude_constraint_NoUpperBound(h, props) ==
    props.min_altitude <= h

\* check_altitude_constraint(height, props)
check_altitude_constraint(h, props) ==
    props.min_altitude <= h /\ h <= props.max_altitude

\* check_collision testing only the candidate's own minimum distance
check_collision_OwnDistanceOnly(x, z, placed, min_dist) ==
    \E i \in 1..Len(placed) :
        distance_squared(x, z, placed[i][1], placed[i][2]) < min_dist * min_dist

\* check_collision also reporting an entry at exactly the checked distance
check_collision_Inclusive(x, z, placed, min_dist) ==
    \E i \in 1..Len(placed) :
        LET check_dist == Max(min_dist, placed[i][3])
        IN  distance_squared(x, z, placed[i][1], placed[i][2])
                <= check_dist * check_dist

\* check_collision(x, z, placed_positions, min_dist)
check_collision(x, z, placed, min_dist) ==
    \E i \in 1..Len(placed) :
        LET check_dist == Max(min_dist, placed[i][3])
        IN  distance_squared(x, z, placed[i][1], placed[i][2])
                < check_dist * check_dist

\* no call of check_collision is under way
CollisionIdle ==
    col_call = [placed |-> <<>>, x |-> 0, z |-> 0, min_dist |-> 0,
                returned |-> FALSE, result |-> FALSE]

\* is_in_clearing(x, z, clearings)
is_in_clearing(x, z, cl) ==
    \E i \in 1..Len(cl) :
        distance_squared(x, z, cl[i][1], cl[i][2]) < cl[i][3] * cl[i][3]

\* get_biome_at_distance(path_distance), path_distance in 1/50 unit
get_biome_at_distance(path_distance) ==
    IF cfg.USE_REALISTIC_TREES THEN "realistic"
    ELSE LET segment == path_distance \div cfg.BIOME_SEGMENT_LENGTH
             r == RngSeed(cfg.SEED + segment * 1000)
         IN  cfg.BIOME_KEYS[((r \div 16) % Len(cfg.BIOME_KEYS)) + 1]

\* the index (from 0) of the path point nearest to (x, z): the first one at
\* the least distance
NearestPathIdx(x, z, path) ==
    CHOOSE i \in 0..(Len(path) - 1) :
        /\ \A j \in 0..(Len(path) - 1) :
               distance_squared(x, z, path[i + 1][1], path[i + 1][2])
                   <= distance_squared(x, z, path[j + 1][1], path[j + 1][2])
        /\ \A j \in 0..(i - 1) :
               distance_squared(x, z, path[j + 1][1], path[j + 1][2])
                   > distance_squared(x, z, path[i + 1][1], path[i + 1][2])

\* the scatter test without its inner bound
OutsideScatter_OuterOnly(x, z, path) ==
    MinDistSq(x, z, path, 1) > cfg.SCATTER_OUTER * cfg.SCATTER_OUTER

\* a variant that measures the distance to the secondary paths as well
OutsideScatter_AllPaths(x, z, path) ==
    LET d_sq == MinDistSq(x, z, path, 1)
    IN  \/ d_sq > cfg.SCATTER_OUTER * cfg.SCATTER_OUTER
        \/ d_sq < cfg.SCATTER_INNER * cfg.SCATTER_INNER
        \/ \E i \in 1..Len(secondary_paths) :
              MinDistSq(x, z, secondary_paths[i], 1)
                  < cfg.SCATTER_INNER * cfg.SCATTER_INNER

\* `min_path_dist > SCATTER_OUTER or min_path_dist < SCATTER_INNER`
OutsideScatter(x, z, path) ==
    LET d_sq == MinDistSq(x, z, path, 1)
    IN  \/ d_sq > cfg.SCATTER_OUTER * cfg.SCATTER_OUTER
        \/ d_sq < cfg.SCATTER_INNER * cfg.SCATTER_INNER

\* random.uniform(scale_min, scale_max): level u of ScaleLevels
UniformScale(scale_range, u) ==
    scale_range[1] + ((scale_range[2] - scale_range[1]) * u) \div ScaleLevels

\* the number of draws generate_object_rotation(props) makes
RotationDraws(props) ==
    (IF props.randomize_y_rotation THEN 1 ELSE 0)
        + (IF props.tilt_angle > 0 THEN 2 ELSE 0)

\* generate_object_rotation(props) in generator state s: the rotations it can
\* return, each as <<y_rotation, tilt_x, tilt_z>> in levels of RotLevels
generate_object_rotation(props, s) ==
    LET ys == IF props.randomize_y_rotation THEN Rand(s, RotLevels) ELSE {0}
        s1 == IF props.randomize_y_rotation THEN Adv(s, 1) ELSE s
        txs == IF props.tilt_angle > 0 THEN Rand(s1, RotLevels) ELSE {0}
        tzs == IF props.tilt_angle > 0 THEN Rand(Adv(s1, 1), RotLevels) ELSE {0}
    IN  ys \X txs \X tzs

\* the placement records one acceptance can append, in generator state s:
\* scale from random.uniform, rot from generate_object_rotation
NewPlacements(role, x, z, terrain_y, props, s) ==
    { [ role |-> role, x |-> x, y |-> terrain_y + props.y_offset, z |-> z,
        scale |-> UniformScale(props.scale_range, u), rot |-> rot ] :
      u \in Rand(s, ScaleLevels),
      rot \in generate_object_rotation(props, Adv(s, 1)) }

\* the number of draws one acceptance makes
PlacementDraws(props) == 1 + RotationDraws(props)

-----------------------------------------------------------------------------
(* Placement: generate_clearings and generate_placements, step by step     *)

\* what the steps of generate_placements leave alone
KeepOutside ==
    UNCHANGED <<cfg, pathVars, selectVars, t_pc, t_args, t_height,
                first_returned, t_repeated, collisionVars, mainVars>>
KeepSetup ==
    UNCHANGED <<main_path, available, clearings, ponds, clearing_i>>
KeepPoints == UNCHANGED <<poisson_points, grass_points>>
KeepCluster == UNCHANGED <<sat_parent, sat_left, cluster_candidates>>
KeepPlaced == UNCHANGED <<placements, placed_by, placed_positions>>
KeepCaches == UNCHANGED <<heightmap_cache, terrain_noise_cache>>

\* tree_roles = [r for r in available if r in ASSET_CATEGORIES.get("trees", [])]
TreeRoles(roles) ==
    SelectSeq(roles, LAMBDA r : /\ "trees" \in DOMAIN cfg.ASSET_CATEGORIES
                             /\ InList(r, cfg.ASSET_CATEGORIES["trees"]))

\* grass_roles = [r for r in available if r.startswith("grass_")]
GrassRoles(roles) == SelectSeq(roles, LAMBDA r : Contains(r, "grass_"))

\* `any(cat in role for cat in ["tree", "rock_large", "bush"])`
ClusterEligible(role) ==
    \E w \in {"tree", "rock_large", "bush"} : Contains(role, w)

\* cluster_candidates of add_cluster_objects for a parent role
ClusterCandidates(parent_role, roles) ==
    IF Contains(parent_role, "tree")
    THEN SelectSeq(roles, LAMBDA r : \E w \in {"fern", "mushroom", "flower", "grass"} :
                                      Contains(r, w))
    ELSE IF Contains(parent_role, "rock_large")
    THEN SelectSeq(roles, LAMBDA r : Contains(r, "rock_small") \/ Contains(r, "moss"))
    ELSE IF Contains(parent_role, "bush")
    THEN SelectSeq(roles, LAMBDA r : \E w \in {"fern", "flower", "grass"} :
                                      Contains(r, w))
    ELSE <<>>

\* x_min, x_max, z_min, z_max of the placement area
AreaMin(path, c) ==
    (CHOOSE v \in {path[i][c] : i \in 1..Len(path)} :
         \A i \in 1..Len(path) : v <= path[i][c]) - cfg.SCATTER_OUTER
AreaMax(path, c) ==
    (CHOOSE v \in {path[i][c] : i \in 1..Len(path)} :
         \A i \in 1..Len(path) : v >= path[i][c]) + cfg.SCATTER_OUTER

\* generate_placements(path_pts, tscn_paths): the state before
\* generate_clearings' loop
PlacementBegin(path, roles) ==
    /\ pc = "idle"
    /\ path # <<>>
    /\ main_path' = path
    /\ available' = roles
    /\ placements' = <<>>
    /\ placed_by' = <<>>
    /\ placed_positions' = <<>>
    /\ clearings' = <<>>
    /\ ponds' = <<>>
    /\ clearing_i' = 0
    /\ pc' = "clearings"
    /\ UNCHANGED <<rng, poissonVars, poisson_points, grass_points, pt_i>>
    /\ KeepCluster /\ KeepCaches /\ KeepOutside

\* generate_clearings' loop making every clearing a pond of the same radius
ClearingStep_PondOfSameRadius ==
    /\ pc = "clearings"
    /\ clearing_i < Len(main_path)
    /\ LET px == main_path[clearing_i + 1][1]
           pz == main_path[clearing_i + 1][2]
       IN  \E u \in Rand(rng, UnitLevels) :
             IF u * 100 < cfg.CLEARING_CHANCE * 3 * UnitLevels
             THEN \E d \in Rand(Adv(rng, 1), DistLevels),
                     a \in Rand(Adv(rng, 2), AngleLevels),
                     rl \in Rand(Adv(rng, 3), DistLevels) :
                    LET offset == UniformDist(0, (cfg.CLEARING_RADIUS * 3) \div 10, d)
                        cx == px + (Dirs[a + 1][1] * offset) \div 5
                        cz == pz + (Dirs[a + 1][2] * offset) \div 5
                        cradius == (cfg.CLEARING_RADIUS
                                       * (70 + (30 * rl) \div DistLevels)) \div 100
                    IN  /\ clearings' = Append(clearings, <<cx, cz, cradius>>)
                        /\ ponds' = Append(ponds, <<cx, cz, cradius>>)
                        /\ rng' = Adv(rng, 6)
             ELSE /\ UNCHANGED <<clearings, ponds>>
                  /\ rng' = Adv(rng, 1)
    /\ clearing_i' = clearing_i + Max(1, Len(main_path) \div 8)
    /\ UNCHANGED <<pc, main_path, available, poissonVars, pt_i>>
    /\ KeepPoints /\ KeepCluster /\ KeepPlaced /\ KeepCaches /\ KeepOutside

\* one iteration of generate_clearings' loop over the clearing spots
ClearingStep ==
    /\ pc = "clearings"
    /\ clearing_i < Len(main_path)
    /\ LET px == main_path[clearing_i + 1][1]
           pz == main_path[clearing_i + 1][2]
       IN  \E u \in Rand(rng, UnitLevels) :
             IF u * 100 < cfg.CLEARING_CHANCE * 3 * UnitLevels
             THEN \E d \in Rand(Adv(rng, 1), DistLevels),
                     a \in Rand(Adv(rng, 2), AngleLevels),
                     rl \in Rand(Adv(rng, 3), DistLevels),
                     pu \in Rand(Adv(rng, 4), UnitLevels) :
                    LET offset == UniformDist(0, (cfg.CLEARING_RADIUS * 3) \div 10, d)
                        cx == px + (Dirs[a + 1][1] * offset) \div 5
                        cz == pz + (Dirs[a + 1][2] * offset) \div 5
                        cradius == (cfg.CLEARING_RADIUS
                                       * (70 + (30 * rl) \div DistLevels)) \div 100
                    IN  /\ clearings' = Append(clearings, <<cx, cz, cradius>>)
                        /\ IF pu * 10 < 6 * UnitLevels
                           THEN /\ \E pl \in Rand(Adv(rng, 5), DistLevels) :
                                      ponds' = Append(ponds,
                                          <<cx, cz, (cradius * (40 + (30 * pl)
                                                \div DistLevels)) \div 100>>)
                                /\ rng' = Adv(rng, 6)
                           ELSE /\ UNCHANGED ponds
                                /\ rng' = Adv(rng, 5)
             ELSE /\ UNCHANGED <<clearings, ponds>>
                  /\ rng' = Adv(rng, 1)
    /\ clearing_i' = clearing_i + Max(1, Len(main_path) \div 8)
    /\ UNCHANGED <<pc, main_path, available, poissonVars, pt_i>>
    /\ KeepPoints /\ KeepCluster /\ KeepPlaced /\ KeepCaches /\ KeepOutside

\* generate_clearings has returned: the first generate_poisson_points_in_area
SamplePoints ==
    /\ pc = "clearings"
    /\ clearing_i >= Len(main_path)
    /\ PoissonInArea(AreaMin(main_path, 1), AreaMax(main_path, 1),
                     AreaMin(main_path, 2), AreaMax(main_path, 2),
                     cfg.POISSON_RADIUS * cfg.POISSON_GRID_SCALE, cfg.SEED)
    /\ pc' = "poisson"
    /\ UNCHANGED <<rng, pt_i>>
    /\ KeepSetup /\ KeepPoints /\ KeepCluster /\ KeepPlaced /\ KeepCaches
    /\ KeepOutside

\* the sample points are back: PASS 1 if there are tree roles, else PASS 2
TreePassBegin ==
    /\ pc = "poisson"
    /\ ppc = "done"
    /\ poisson_points' = world_points
    /\ pt_i' = 0
    /\ pc' = IF TreeRoles(available) # <<>> THEN "trees" ELSE "general"
    /\ ppc' = "idle"
    /\ UNCHANGED <<rng, area, width, height, radius, samples, prng, grid,
                   points, spawn_points, spawn_index, attempt, world_points,
                   grass_points>>
    /\ KeepSetup /\ KeepCluster /\ KeepPlaced /\ KeepCaches /\ KeepOutside

\* `continue`: on to the next sample point, nothing placed
NextPoint ==
    /\ pt_i' = pt_i + 1
    /\ UNCHANGED pc
    /\ KeepPlaced /\ KeepCluster

\* the height gate with the position never recorded in placed_positions
HeightGateAndAppend_NoLedger(role, x, z, s, by, in_ledger) ==
    LET props == get_asset_props(role)
        t == get_terrain_height(heightmap_cache, terrain_noise_cache,
                                x, z, main_path)
    IN  /\ heightmap_cache' = t.heightmap
        /\ terrain_noise_cache' = t.noise
        /\ IF check_altitude_constraint(t.value, props)
           THEN /\ \E rec \in NewPlacements(role, x, z, t.value, props, s) :
                      placements' = Append(placements, rec)
                /\ placed_by' = Append(placed_by, by)
                /\ UNCHANGED placed_positions
           ELSE KeepPlaced

\* the height gate with the new record put at the head of the list
HeightGateAndAppend_Prepend(role, x, z, s, by, in_ledger) ==
    LET props == get_asset_props(role)
        t == get_terrain_height(heightmap_cache, terrain_noise_cache,
                                x, z, main_path)
    IN  /\ heightmap_cache' = t.heightmap
        /\ terrain_noise_cache' = t.noise
        /\ IF check_altitude_constraint(t.value, props)
           THEN /\ \E rec \in NewPlacements(role, x, z, t.value, props, s) :
                      placements' = <<rec>> \o placements
                /\ placed_by' = <<by>> \o placed_by
                /\ placed_positions' =
                       IF in_ledger
                       THEN Append(placed_positions, <<x, z, props.min_spacing>>)
                       ELSE placed_positions
           ELSE KeepPlaced

\* get_terrain_height, check_altitude_constraint and the append that follows
\* when it passes, as the four placing steps do them; s is the generator state
\* at the append, `by` the step, in_ledger whether the step records the
\* position in placed_positions
HeightGateAndAppend(role, x, z, s, by, in_ledger) ==
    LET props == get_asset_props(role)
        t == get_terrain_height(heightmap_cache, terrain_noise_cache,
                                x, z, main_path)
    IN  /\ heightmap_cache' = t.heightmap
        /\ terrain_noise_cache' = t.noise
        /\ IF check_altitude_constraint(t.value, props)
           THEN /\ \E rec \in NewPlacements(role, x, z, t.value, props, s) :
                      placements' = Append(placements, rec)
                /\ placed_by' = Append(placed_by, by)
                /\ placed_positions' =
                       IF in_ledger
                       THEN Append(placed_positions, <<x, z, props.min_spacing>>)
                       ELSE placed_positions
           ELSE KeepPlaced

\* whether HeightGateAndAppend appends
PassesHeightGate(role, x, z) ==
    check_altitude_constraint(
        get_terrain_height(heightmap_cache, terrain_noise_cache,
                           x, z, main_path).value,
        get_asset_props(role))

\* the generator state after HeightGateAndAppend entered in state s
AfterAppend(role, x, z, s) ==
    IF PassesHeightGate(role, x, z)
    THEN Adv(s, PlacementDraws(get_asset_props(role)))
    ELSE s

\* PASS 1, one sample point
TreeStep ==
    /\ pc = "trees"
    /\ pt_i < Len(poisson_points)
    /\ LET x == poisson_points[pt_i + 1][1]
           z == poisson_points[pt_i + 1][2]
           tree_roles == TreeRoles(available)
       IN  IF is_in_clearing(x, z, clearings) \/ OutsideScatter(x, z, main_path)
           THEN NextPoint /\ KeepCaches /\ UNCHANGED rng
           ELSE \E u \in Rand(rng, UnitLevels) :
                  IF u * 100 > 30 * UnitLevels
                  THEN NextPoint /\ KeepCaches /\ rng' = Adv(rng, 1)
                  ELSE \E k \in Rand(Adv(rng, 1), Len(tree_roles)) :
                         LET role == tree_roles[k + 1]
                         IN  IF check_collision(x, z, placed_positions,
                                     get_asset_props(role).min_spacing)
                             THEN NextPoint /\ KeepCaches /\ rng' = Adv(rng, 2)
                             ELSE /\ HeightGateAndAppend(role, x, z, Adv(rng, 2),
                                                         "tree", TRUE)
                                  /\ rng' = AfterAppend(role, x, z, Adv(rng, 2))
                                  /\ pt_i' = pt_i + 1
                                  /\ UNCHANGED pc
                                  /\ KeepCluster
    /\ UNCHANGED poissonVars
    /\ KeepSetup /\ KeepPoints /\ KeepOutside

\* PASS 1 is over
TreePassEnd ==
    /\ pc = "trees"
    /\ pt_i >= Len(poisson_points)
    /\ pc' = "general"
    /\ pt_i' = 0
    /\ UNCHANGED <<rng, poissonVars>>
    /\ KeepSetup /\ KeepPoints /\ KeepCluster /\ KeepPlaced /\ KeepCaches
    /\ KeepOutside

\* add_cluster_objects attempting 2 to 4 satellites
ClusterBegin_FourSatellites(x, z, parent_role, s) ==
    \E u \in Rand(s, UnitLevels) :
        LET candidates == ClusterCandidates(parent_role, available)
        IN  IF u * 100 > cfg.CLUSTER_CHANCE * UnitLevels \/ candidates = <<>>
            THEN /\ rng' = Adv(s, 1)
                 /\ pt_i' = pt_i + 1
                 /\ UNCHANGED pc
                 /\ KeepCluster
            ELSE /\ \E n \in Rand(Adv(s, 1), 3) : sat_left' = n + 2
                 /\ rng' = Adv(s, 2)
                 /\ sat_parent' = <<x, z, parent_role>>
                 /\ cluster_candidates' = candidates
                 /\ pc' = "cluster"
                 /\ UNCHANGED pt_i

\* the entry of add_cluster_objects around (x, z) in generator state s, up to
\* `for _ in range(num_satellites)`; without satellites, on to the next point
ClusterBegin(x, z, parent_role, s) ==
    \E u \in Rand(s, UnitLevels) :
        LET candidates == ClusterCandidates(parent_role, available)
        IN  IF u * 100 > cfg.CLUSTER_CHANCE * UnitLevels \/ candidates = <<>>
            THEN /\ rng' = Adv(s, 1)
                 /\ pt_i' = pt_i + 1
                 /\ UNCHANGED pc
                 /\ KeepCluster
            ELSE /\ \E n \in Rand(Adv(s, 1), 3) : sat_left' = n + 1
                 /\ rng' = Adv(s, 2)
                 /\ sat_parent' = <<x, z, parent_role>>
                 /\ cluster_candidates' = candidates
                 /\ pc' = "cluster"
                 /\ UNCHANGED pt_i

\* PASS 2, one sample point
GeneralStep ==
    /\ pc = "general"
    /\ pt_i < Len(poisson_points)
    /\ LET x == poisson_points[pt_i + 1][1]
           z == poisson_points[pt_i + 1][2]
           nearest_path_idx == NearestPathIdx(x, z, main_path)
           path_distance == (nearest_path_idx * cfg.PATH_LENGTH) \div Len(main_path)
           biome == get_biome_at_distance(path_distance)
       IN  IF is_in_clearing(x, z, clearings) \/ OutsideScatter(x, z, main_path)
           THEN NextPoint /\ KeepCaches /\ UNCHANGED rng
           ELSE \E role \in SelectAssetForBiome(biome, available, rng) :
                  IF role = "IndexError"
                  THEN /\ pc' = "error"
                       /\ UNCHANGED <<rng, pt_i>>
                       /\ KeepPlaced /\ KeepCluster /\ KeepCaches
                  ELSE IF check_collision(x, z, placed_positions,
                              get_asset_props(role).min_spacing)
                  THEN NextPoint /\ KeepCaches /\ rng' = Adv(rng, 1)
                  ELSE /\ HeightGateAndAppend(role, x, z, Adv(rng, 1),
                                              "general", TRUE)
                       /\ IF /\ PassesHeightGate(role, x, z)
                             /\ ClusterEligible(role)
                          THEN ClusterBegin(x, z, role,
                                            AfterAppend(role, x, z, Adv(rng, 1)))
                          ELSE /\ rng' = AfterAppend(role, x, z, Adv(rng, 1))
                               /\ pt_i' = pt_i + 1
                               /\ UNCHANGED pc
                               /\ KeepCluster
    /\ UNCHANGED poissonVars
    /\ KeepSetup /\ KeepPoints /\ KeepOutside

\* one iteration of add_cluster_objects' loop; after the last one the general
\* pass goes on to its next sample point
SatelliteStep ==
    /\ pc = "cluster"
    /\ sat_left > 0
    /\ \E k \in Rand(rng, Len(cluster_candidates)),
          a \in Rand(Adv(rng, 1), SatAngleLevels),
          d \in Rand(Adv(rng, 2), SatDistLevels) :
         LET role == cluster_candidates[k + 1]
             min_spacing == get_asset_props(role).min_spacing
             dist == UniformLen(min_spacing, (min_spacing * 5) \div 2, d,
                                SatDistLevels)
             sat_x == sat_parent[1] + (Dirs[a + 1][1] * dist) \div 5
             sat_z == sat_parent[2] + (Dirs[a + 1][2] * dist) \div 5
         IN  IF check_collision(sat_x, sat_z, placed_positions, min_spacing)
             THEN KeepPlaced /\ KeepCaches /\ rng' = Adv(rng, 3)
             ELSE /\ HeightGateAndAppend(role, sat_x, sat_z, Adv(rng, 3),
                                         "satellite", TRUE)
                  /\ rng' = AfterAppend(role, sat_x, sat_z, Adv(rng, 3))
    /\ sat_left' = sat_left - 1
    /\ pc' = IF sat_left = 1 THEN "general" ELSE pc
    /\ pt_i' = IF sat_left = 1 THEN pt_i + 1 ELSE pt_i
    /\ UNCHANGED <<sat_parent, cluster_candidates, poissonVars>>
    /\ KeepSetup /\ KeepPoints /\ KeepOutside

\* PASS 2 is over: without grass roles generate_placements returns, else it
\* samples the ground-cover points (spacing 3.0, seed SEED + 1000)
GeneralPassEnd ==
    /\ pc = "general"
    /\ pt_i >= Len(poisson_points)
    /\ IF GrassRoles(available) = <<>>
       THEN /\ pc' = "done"
            /\ UNCHANGED poissonVars
       ELSE /\ PoissonInArea(AreaMin(main_path, 1), AreaMax(main_path, 1),
                             AreaMin(main_path, 2), AreaMax(main_path, 2),
                             150, cfg.SEED + 1000)
            /\ pc' = "grass_poisson"
    /\ UNCHANGED <<rng, pt_i>>
    /\ KeepSetup /\ KeepPoints /\ KeepCluster /\ KeepPlaced /\ KeepCaches
    /\ KeepOutside

\* the ground-cover points are back
GrassPassBegin ==
    /\ pc = "grass_poisson"
    /\ ppc = "done"
    /\ grass_points' = world_points
    /\ pt_i' = 0
    /\ pc' = "grass"
    /\ ppc' = "idle"
    /\ UNCHANGED <<rng, area, width, height, radius, samples, prng, grid,
                   points, spawn_points, spawn_index, attempt, world_points,
                   poisson_points>>
    /\ KeepSetup /\ KeepCluster /\ KeepPlaced /\ KeepCaches /\ KeepOutside

\* the ground-cover pass recording its placements in the ledger
GrassStep_Ledgered ==
    /\ pc = "grass"
    /\ pt_i < Len(grass_points)
    /\ LET jx == grass_points[pt_i + 1][1]
           jz == grass_points[pt_i + 1][2]
           grass_roles == GrassRoles(available)
           too_close == \E i \in 1..Len(placed_positions) :
                            distance_squared(placed_positions[i][1],
                                             placed_positions[i][2], jx, jz)
                                < 50 * 50
       IN  IF is_in_clearing(jx, jz, clearings) \/ too_close
           THEN KeepPlaced /\ KeepCaches /\ UNCHANGED rng
           ELSE \E k \in Rand(rng, Len(grass_roles)) :
                  /\ HeightGateAndAppend(grass_roles[k + 1], jx, jz,
                                         Adv(rng, 1), "grass", TRUE)
                  /\ rng' = AfterAppend(grass_roles[k + 1], jx, jz, Adv(rng, 1))
    /\ pt_i' = pt_i + 1
    /\ UNCHANGED <<pc, poissonVars>>
    /\ KeepSetup /\ KeepPoints /\ KeepCluster /\ KeepOutside

\* the ground-cover pass, one point
GrassStep ==
    /\ pc = "grass"
    /\ pt_i < Len(grass_points)
    /\ LET jx == grass_points[pt_i + 1][1]
           jz == grass_points[pt_i + 1][2]
           grass_roles == GrassRoles(available)
           too_close == \E i \in 1..Len(placed_positions) :
                            distance_squared(placed_positions[i][1],
                                             placed_positions[i][2], jx, jz)
                                < 50 * 50
       IN  IF is_in_clearing(jx, jz, clearings) \/ too_close
           THEN KeepPlaced /\ KeepCaches /\ UNCHANGED rng
           ELSE \E k \in Rand(rng, Len(grass_roles)) :
                  /\ HeightGateAndAppend(grass_roles[k + 1], jx, jz,
                                         Adv(rng, 1), "grass", FALSE)
                  /\ rng' = AfterAppend(grass_roles[k + 1], jx, jz, Adv(rng, 1))
    /\ pt_i' = pt_i + 1
    /\ UNCHANGED <<pc, poissonVars>>
    /\ KeepSetup /\ KeepPoints /\ KeepCluster /\ KeepOutside

\* return placements, ponds
GrassPassEnd ==
    /\ pc = "grass"
    /\ pt_i >= Len(grass_points)
    /\ pc' = "done"
    /\ UNCHANGED <<rng, poissonVars, pt_i>>
    /\ KeepSetup /\ KeepPoints /\ KeepCluster /\ KeepPlaced /\ KeepCaches
    /\ KeepOutside

PlacementIdle ==
    /\ pc = "idle"
    /\ main_path = <<>>
    /\ available = <<>>
    /\ clearings = <<>>
    /\ ponds = <<>>
    /\ clearing_i = 0
    /\ poisson_points = <<>>
    /\ grass_points = <<>>
    /\ pt_i = 0
    /\ placements = <<>>
    /\ placed_by = <<>>
    /\ placed_positions = <<>>
    /\ sat_parent = <<0, 0, "">>
    /\ sat_left = 0
    /\ cluster_candidates = <<>>

-----------------------------------------------------------------------------
(* The main program: seed, resolve the roles, paths, placements            *)

\* the set of the elements of a list
Range(list) == {list[i] : i \in 1..Len(list)}

\* the orders a loop over the set `roles` can take its elements in
KeyOrders(roles) ==
    {l \in [1..Cardinality(roles) -> roles] : Range(l) = roles}

\* tangent_at(pts, i) before its division by l: <<dx, dz, l>>, i from 0
tangent_at(pts, i) ==
    LET j == Max(1, Min(i, Len(pts) - 2))
        dx == pts[j + 2][1] - pts[j][1]
        dz == pts[j + 2][2] - pts[j][2]
        l == ISqrt(dx * dx + dz * dz)
    IN  <<dx, dz, IF l = 0 THEN 1 ELSE l>>

\* whether tangent_at(pts, i) raises: pts[i+1] of the clamped index is read
\* without a check, an IndexError for a list of fewer than 3 points
tangent_at_raises(pts, i) ==
    Max(1, Min(i, Len(pts) - 2)) + 1 > Len(pts) - 1

\* perp(t), on the same scale
perp(t) == <<-t[2], t[1], t[3]>>

\* the control-point lists the inner loop of generate_secondary_paths can
\* build from sec, i being the next index and s the generator state
RECURSIVE SecondaryCtrlPts(_, _, _, _, _, _)
SecondaryCtrlPts(sec, i, num_points, p, side, s) ==
    IF i >= num_points THEN {sec}
    ELSE UNION {
        LET last_x == sec[Len(sec)][1]
            last_z == sec[Len(sec)][2]
            wander_x == Uniform(-cfg.SECONDARY_PATH_WANDER,
                                cfg.SECONDARY_PATH_WANDER, u)
            wander_z == cfg.SECONDARY_PATH_LENGTH \div (num_points - 1)
            \* p * drift, drift = (i / num_points) * side * wander * 0.5
            drift_x == (p[1] * i * side * cfg.SECONDARY_PATH_WANDER)
                           \div (2 * num_points * p[3])
            drift_z == (p[2] * i * side * cfg.SECONDARY_PATH_WANDER)
                           \div (2 * num_points * p[3])
        IN  SecondaryCtrlPts(
                Append(sec, <<last_x + wander_x + drift_x,
                              last_z + wander_z + drift_z>>),
                i + 1, num_points, p, side, Adv(s, 1)) :
        u \in Rand(s, UnitLevels) }

\* num_points of a secondary path
SecondaryNumPoints ==
    Max(3, (cfg.PATH_CONTROL_POINTS * cfg.SECONDARY_PATH_LENGTH)
               \div cfg.PATH_LENGTH)

\* the secondary paths one iteration of generate_secondary_paths' outer loop
\* can append for a main path of 10 points or more, in generator state s
SecondaryPath(pts, s) ==
    LET lo == Len(pts) \div 4
        hi == (3 * Len(pts)) \div 4
    IN  UNION {
            { sample_path(c, 15) :
                c \in SecondaryCtrlPts(
                          << pts[lo + b + 1] >>, 1, SecondaryNumPoints,
                          perp(tangent_at(pts, lo + b)),
                          IF sd = 0 THEN -1 ELSE 1, Adv(s, 2)) } :
            b \in Rand(s, hi - lo + 1), sd \in Rand(Adv(s, 1), 2) }

\* generate_secondary_paths(main_path_pts) with k iterations to go, acc the
\* paths so far: every [paths, rng] it can return with
RECURSIVE generate_secondary_paths(_, _, _, _)
generate_secondary_paths(pts, k, acc, s) ==
    IF k = 0 THEN {[paths |-> acc, rng |-> s]}
    ELSE IF Len(pts) < 10
    THEN generate_secondary_paths(pts, k - 1, acc, s)
    ELSE UNION { generate_secondary_paths(pts, k - 1, Append(acc, sp),
                                          Adv(s, 2 + SecondaryNumPoints - 1)) :
                 sp \in SecondaryPath(pts, s) }

\* what the steps of the main program leave alone
KeepMain == UNCHANGED <<cfg, poissonVars, selectVars, t_pc, t_args, t_height,
                        first_returned, t_repeated, placeVars, collisionVars>>

\* random.seed(SEED); clear_terrain_cache(); steps 1 to 3: the keys of
\* tscn_paths are the roles resolved by name, in the order of the role table,
\* then the roles resolved by fuzzy matching, in the iteration order of the
\* set `missing`, then the new tree pack
MainSeed ==
    /\ main_pc = "start"
    /\ rng' = RngSeed(cfg.SEED)
    /\ ClearTerrainCache
    /\ \E fuzzy \in KeyOrders(world.fuzzy) :
           tscn_paths' = world.exact \o fuzzy \o world.new_trees
    /\ main_pc' = "step4"
    /\ UNCHANGED <<run, world, first_run, secondary_paths, pathVars>>
    /\ KeepMain

\* ctrl_pts = generate_control_points(PATH_LENGTH, PATH_CONTROL_POINTS,
\*                                    PATH_WANDER)
MainControlPoints ==
    /\ main_pc = "step4"
    /\ path_pc = "idle"
    /\ GenerateControlPointsBegin(cfg.PATH_LENGTH, cfg.PATH_CONTROL_POINTS,
                                  cfg.PATH_WANDER)
    /\ UNCHANGED <<rng, path_samples, path_pts, tan_call, mainVars,
                   heightmap_cache,
                   terrain_noise_cache>>
    /\ KeepMain

\* path_pts = sample_path(ctrl_pts)
MainSamplePath ==
    /\ main_pc = "step4"
    /\ SamplePath(20)

\* secondary_paths = generate_secondary_paths(path_pts)
MainSecondaryPaths ==
    /\ main_pc = "step4"
    /\ path_pc = "sampled"
    /\ \E r \in generate_secondary_paths(path_pts, cfg.SECONDARY_PATHS,
                                         <<>>, rng) :
           /\ secondary_paths' = r.paths
           /\ rng' = r.rng
    /\ main_pc' = "paths"
    /\ UNCHANGED <<run, world, first_run, tscn_paths, pathVars,
                   heightmap_cache, terrain_noise_cache>>
    /\ KeepMain

\* placements, ponds = generate_placements(path_pts, tscn_paths,
\*                                         secondary_paths)
MainPlacements ==
    /\ main_pc = "paths"
    /\ PlacementBegin(path_pts, tscn_paths)

\* what a finished run has produced
Outputs ==
    [ ctrl_pts |-> ctrl_pts, path_pts |-> path_pts,
      secondary_paths |-> secondary_paths,
      placements |-> placements, ponds |-> ponds,
      keys |-> tscn_paths ]

\* the program is run a second time, as a new process, in the same world
SecondRun ==
    /\ main_pc = "paths"
    /\ pc = "done"
    /\ run = 1
    /\ run' = 2
    /\ first_run' = Outputs
    /\ main_pc' = "start"
    /\ rng' = Free
    /\ secondary_paths' = <<>>
    /\ tscn_paths' = <<>>
    /\ ppc' = "idle" /\ area' = <<0, 0>>
    /\ width' = 0 /\ height' = 0 /\ radius' = 1 /\ samples' = 0
    /\ prng' = Free /\ grid' = <<>> /\ points' = <<>>
    /\ spawn_points' = <<>> /\ spawn_index' = 0 /\ attempt' = 0
    /\ world_points' = <<>>
    /\ path_pc' = "idle" /\ ctrl_call' = <<0, 0, 0>> /\ ctrl_pts' = <<>>
    /\ path_samples' = 0 /\ path_pts' = <<>>
    /\ tan_call' = [i |-> -1, raised |-> FALSE, value |-> <<0, 0, 1>>]
    /\ ClearTerrainCache
    /\ pc' = "idle" /\ main_path' = <<>> /\ available' = <<>>
    /\ clearings' = <<>> /\ ponds' = <<>> /\ clearing_i' = 0
    /\ poisson_points' = <<>> /\ grass_points' = <<>> /\ pt_i' = 0
    /\ placements' = <<>> /\ placed_by' = <<>> /\ placed_positions' = <<>>
    /\ sat_parent' = <<0, 0, "">> /\ sat_left' = 0
    /\ cluster_candidates' = <<>>
    /\ UNCHANGED <<cfg, world, selectVars, t_pc, t_args, t_height,
                   first_returned, t_repeated, collisionVars>>

MainIdle ==
    /\ main_pc = "off"
    /\ run = 0
    /\ world = [exact |-> <<>>, fuzzy |-> {}, new_trees |-> <<>>]
    /\ tscn_paths = <<>>
    /\ secondary_paths = <<>>
    /\ first_run = <<>>

-----------------------------------------------------------------------------
(* The sampler called on its own, for every region, radius, budget, seed   *)

\* <<width, height, radius>> of the calls: regions of about two radii, and
\* the 10 x 10 region with radius 20
PoissonCases == {<<200, 200, 125>>, <<250, 200, 125>>, <<500, 500, 1000>>}
Seeds == {Free, 42}
Origins == {<<0, 0>>, <<-100, -50>>}

\* BIOMES: each table as the list of its items, weights in hundredths
BIOMES ==
    [ forest |-> << <<"trees", 60>>, <<"trees_bare", 0>>, <<"boulders", 5>>,
                    <<"rocks", 5>>, <<"bushes", 15>>, <<"ferns", 10>>,
                    <<"grass", 5>> >>,
      rocky |-> << <<"trees", 8>>, <<"trees_bare", 0>>, <<"boulders", 20>>,
                   <<"rocks", 30>>, <<"bushes", 12>>, <<"ferns", 15>>,
                   <<"grass", 15>> >>,
      meadow |-> << <<"trees", 10>>, <<"trees_bare", 0>>, <<"boulders", 3>>,
                    <<"rocks", 7>>, <<"bushes", 15>>, <<"ferns", 30>>,
                    <<"grass", 35>> >>,
      winter |-> << <<"trees", 10>>, <<"trees_bare", 25>>, <<"boulders", 15>>,
                    <<"rocks", 25>>, <<"bushes", 5>>, <<"ferns", 10>>,
                    <<"grass", 10>> >>,
      autumn |-> << <<"trees", 20>>, <<"trees_bare", 15>>, <<"boulders", 8>>,
                    <<"rocks", 12>>, <<"bushes", 18>>, <<"ferns", 15>>,
                    <<"grass", 12>> >>,
      realistic |-> << <<"trees_realistic", 60>>, <<"trees", 0>>,
                       <<"trees_bare", 0>>, <<"boulders", 8>>, <<"rocks", 12>>,
                       <<"bushes", 10>>, <<"ferns", 5>>, <<"grass", 5>> >> ]

\* ASSET_CATEGORIES, each category cut down to the roles of the model
ASSET_CATEGORIES ==
    [ trees |-> <<"new_tree_pack">>,
      trees_bare |-> <<"tree_bare_1">>,
      boulders |-> <<"rock_boulder_1">>,
      rocks |-> <<"rock_small_1">>,
      bushes |-> <<"bush_round_1">>,
      ferns |-> <<"fern_1">>,
      grass |-> <<"grass_1", "grass_2">>,
      trees_realistic |-> <<"real_maple_1">> ]

\* TERRAIN_PASSES: frequency in halves, scale and contrast in tenths
TERRAIN_PASSES ==
    << [octaves |-> 4, frequency2 |-> 1, scale10 |-> 10, blend |-> "base",
        contrast10 |-> 10],
       [octaves |-> 2, frequency2 |-> 3, scale10 |-> 3, blend |-> "add",
        contrast10 |-> 12] >>

\* list(BIOMES.keys())
BIOME_KEYS == <<"forest", "rocky", "meadow", "winter", "autumn", "realistic">>

\* the module-level configuration: the shipped values, except the sizes of
\* the world (path length, scatter band, clearing radius) and the attempt
\* budget of the sampler, which are scaled down; lengths in 1/50 unit,
\* probabilities in hundredths
DefaultCfg ==
    [ SEED |-> 42,
      PATH_LENGTH |-> 7500,
      SCATTER_INNER |-> 125,
      SCATTER_OUTER |-> 250,
      CLEARING_CHANCE |-> 15,
      CLEARING_RADIUS |-> 150,
      CLUSTER_CHANCE |-> 30,
      POISSON_RADIUS |-> 125,
      POISSON_SAMPLES |-> 2,
      POISSON_GRID_SCALE |-> 1,
      PATH_CONTROL_POINTS |-> 4,
      PATH_WANDER |-> 50,
      SECONDARY_PATHS |-> 1,
      SECONDARY_PATH_LENGTH |-> 300,
      SECONDARY_PATH_WANDER |-> 30,
      BIOME_SEGMENT_LENGTH |-> 1500,
      USE_REALISTIC_TREES |-> FALSE,
      TERRAIN_HEIGHT_SCALE |-> 0,
      TERRAIN_PASSES |-> TERRAIN_PASSES,
      PATH_FLATTEN_RADIUS |-> 150,
      BIOMES |-> BIOMES,
      BIOME_KEYS |-> BIOME_KEYS,
      ASSET_CATEGORIES |-> ASSET_CATEGORIES ]

\* the configuration of the two-category scenario: a biome whose table is
\* {"a": 0.0, "b": 1.0} (and the same table in the other order), one role each
ScenarioCfg ==
    [ DefaultCfg EXCEPT
        !.BIOME_KEYS = <<"forest", "ab", "ba">>,
        !.BIOMES = [ forest |-> BIOMES.forest,
                     ab |-> << <<"a", 0>>, <<"b", 100>> >>,
                     ba |-> << <<"b", 100>>, <<"a", 0>> >> ],
        !.ASSET_CATEGORIES = [ trees |-> <<"new_tree_pack">>,
                               a |-> <<"role_a">>,
                               b |-> <<"role_b">> ] ]

\* the configuration of the empty-category scenario: the table of biome
\* "gap" names a category without members, one missing from ASSET_CATEGORIES
\* and one with a member; the table of biome "void" names only the first two
EmptyCategoryCfg ==
    [ DefaultCfg EXCEPT
        !.BIOME_KEYS = <<"forest", "gap", "void">>,
        !.BIOMES = [ forest |-> BIOMES.forest,
                     gap |-> << <<"empty_cat", 100>>, <<"missing_cat", 100>>,
                                <<"bushes", 100>> >>,
                     void |-> << <<"empty_cat", 100>>, <<"missing_cat", 100>> >> ],
        !.ASSET_CATEGORIES = [ trees |-> <<"new_tree_pack">>,
                               bushes |-> <<"bush_round_1">>,
                               empty_cat |-> <<>> ] ]

InitPoisson ==
    /\ cfg = DefaultCfg
    /\ rng = Free
    /\ PoissonIdle
    /\ PathIdle
    /\ SelectIdle
    /\ CollisionIdle
    /\ TerrainIdle
    /\ PlacementIdle
    /\ MainIdle

\* a caller's poisson_disc_sampling(width, height, radius, samples, seed)
CallPoissonDiscSampling ==
    /\ ppc = "idle"
    /\ \E c \in PoissonCases, smp \in 0..MaxSamples, seed \in Seeds :
           PoissonBegin(c[1], c[2], c[3], smp, seed)
    /\ area' = <<0, 0>>
    /\ UNCHANGED outsidePoisson

\* a caller's generate_poisson_points_in_area(...)
CallGeneratePoissonPointsInArea ==
    /\ ppc = "idle"
    /\ \E o \in Origins, c \in PoissonCases, seed \in Seeds :
           PoissonInArea(o[1], o[1] + c[1], o[2], o[2] + c[2], c[3], seed)
    /\ UNCHANGED outsidePoisson

NextPoisson ==
    \/ CallPoissonDiscSampling
    \/ CallGeneratePoissonPointsInArea
    \/ PoissonPick
    \/ PoissonTry
    \/ PoissonExhaust
    \/ PoissonReturn

SpecPoisson == InitPoisson /\ [][NextPoisson]_vars

\* the same calls when the interpreter keeps executing: a step of the
\* function that can be taken is taken
SpecPoissonLive ==
    /\ InitPoisson
    /\ [][NextPoisson]_vars
    /\ WF_vars(PoissonPick)
    /\ WF_vars(PoissonTry)
    /\ WF_vars(PoissonExhaust)
    /\ WF_vars(PoissonReturn)

-----------------------------------------------------------------------------
(* The path functions called on their own                                  *)

\* <<length, wander>> of the generate_control_points calls
PathCases == {<<180, 50>>, <<300, 100>>, <<300, 0>>}

\* control-point lists handed to sample_path directly: the empty list, a
\* single point, two coincident points, a straight and a bent list
CtrlLists ==
    { <<>>,
      << <<0, 0>> >>,
      << <<50, 100>>, <<50, 100>> >>,
      << <<0, 0>>, <<0, 100>>, <<0, 200>> >>,
      << <<-50, 0>>, <<75, 100>>, <<-25, 150>>, <<100, 300>>, <<25, 350>> >> }

InitPath ==
    /\ cfg = DefaultCfg
    /\ rng = Free
    /\ PoissonIdle
    /\ PathIdle
    /\ SelectIdle
    /\ CollisionIdle
    /\ TerrainIdle
    /\ PlacementIdle
    /\ MainIdle

CallGenerateControlPoints ==
    /\ path_pc = "idle"
    /\ \E c \in PathCases, num_points \in 0..MaxCtrlPoints :
           GenerateControlPointsBegin(c[1], num_points, c[2])
    /\ UNCHANGED <<outsidePath, rng, path_samples, path_pts, tan_call>>

\* a caller that has its control points from elsewhere
SetControlPoints ==
    /\ path_pc = "idle"
    /\ ctrl_pts' \in CtrlLists
    /\ path_pc' = "ready"
    /\ UNCHANGED <<outsidePath, rng, ctrl_call, path_samples, path_pts,
                   tan_call>>

CallSamplePath ==
    \E n \in 1..MaxPathSamples : SamplePath(n)

\* a caller's tangent_at(path_pts, i), i any index of the path or one past it
CallTangentAt ==
    /\ path_pc = "sampled"
    /\ \E i \in 0..Len(path_pts) :
           tan_call' =
               IF tangent_at_raises(path_pts, i)
               THEN [i |-> i, raised |-> TRUE, value |-> <<0, 0, 1>>]
               ELSE [i |-> i, raised |-> FALSE,
                     value |-> tangent_at(path_pts, i)]
    /\ UNCHANGED <<outsidePath, rng, path_pc, ctrl_call, ctrl_pts,
                   path_samples, path_pts>>

NextPath ==
    \/ CallGenerateControlPoints
    \/ CtrlStep
    \/ CtrlReturn
    \/ SetControlPoints
    \/ CallSamplePath
    \/ CallTangentAt

SpecPath == InitPath /\ [][NextPath]_vars

-----------------------------------------------------------------------------
(* The selection called on its own                                         *)

SelectRoles == {"new_tree_pack", "tree_bare_1", "rock_boulder_1",
                "bush_round_1", "fern_1", "flower_1", "role_a", "role_b"}

\* the available_roles lists of the calls: up to two roles, in either order
AvailableLists ==
    {<<>>} \cup {<<r>> : r \in SelectRoles}
           \cup {l \in SelectRoles \X SelectRoles : l[1] # l[2]}

SelectBiomes == {"forest", "meadow", "realistic", "ab", "ba", "gap", "void"}

InitSelect ==
    /\ cfg \in {DefaultCfg, ScenarioCfg, EmptyCategoryCfg}
    /\ rng = Free
    /\ PoissonIdle
    /\ PathIdle
    /\ SelectIdle
    /\ CollisionIdle
    /\ TerrainIdle
    /\ PlacementIdle
    /\ MainIdle

CallSelect ==
    /\ \E biome \in SelectBiomes, available_roles \in AvailableLists :
           CallSelectAssetForBiome(biome, available_roles)

NextSelect == CallSelect

SpecSelect == InitSelect /\ [][NextSelect]_vars

-----------------------------------------------------------------------------
(* The height field queried on its own                                     *)

\* the points queried: three in one 0.1-unit cache cell, one in another
TerrainPoints == {<<128, 620>>, <<132, 620>>, <<130, 622>>, <<200, 620>>}

\* the path arguments: None, and a path passing near the first cell
TerrainPaths == {<<>>, << <<0, 600>>, <<0, 700>> >>}

\* TERRAIN_HEIGHT_SCALE of the runs: flat (as shipped) and 12 units
HeightScales == {0, 12}

InitTerrain ==
    /\ cfg \in {[DefaultCfg EXCEPT !.TERRAIN_HEIGHT_SCALE = h] : h \in HeightScales}
    /\ rng = Free
    /\ PoissonIdle
    /\ PathIdle
    /\ SelectIdle
    /\ CollisionIdle
    /\ TerrainIdle
    /\ PlacementIdle
    /\ MainIdle

\* a caller's get_terrain_height(x, z, path)
CallGetTerrainHeight ==
    \E p \in TerrainPoints, path \in TerrainPaths :
        /\ GetTerrainHeight(p[1], p[2], path)
        /\ t_args' = <<p[1], p[2], path>>
        /\ t_pc' = "returned"
        /\ t_repeated' = (<<p[1], p[2], path>> \in DOMAIN first_returned)
        /\ first_returned' =
               [a \in DOMAIN first_returned \cup {<<p[1], p[2], path>>} |->
                   IF a \in DOMAIN first_returned THEN first_returned[a]
                   ELSE t_height']
        /\ UNCHANGED outsideTerrain

\* a caller's clear_terrain_cache()
CallClearTerrainCache ==
    /\ t_pc = "returned"
    /\ ClearTerrainCache
    /\ t_pc' = "cleared"
    /\ first_returned' = <<>>
    /\ t_repeated' = FALSE
    /\ UNCHANGED <<outsideTerrain, t_args, t_height>>

NextTerrain ==
    \/ CallGetTerrainHeight
    \/ CallClearTerrainCache

SpecTerrain == InitTerrain /\ [][NextTerrain]_vars

-----------------------------------------------------------------------------
(* generate_placements on a small world, every draw free                   *)

\* the path_pts of the runs
PlacementPaths == { << <<0, 600>> >> }
\* list(tscn_paths.keys()) of the runs
PlacementRoles ==
    { <<"new_tree_pack", "bush_round_1", "flower_1">>, <<"grass_1">>,
      <<"new_tree_pack", "grass_1">> }
\* the configuration of the runs: a world of one biome segment (SEED 53
\* makes it a winter one), the scatter band and the flattened strip narrowed
\* to it, flat (0) or with relief (12)
PlacementCfg(height_scale) ==
    [ DefaultCfg EXCEPT !.SEED = 53,
                        !.SCATTER_OUTER = 175,
                        !.PATH_FLATTEN_RADIUS = 75,
                        !.TERRAIN_HEIGHT_SCALE = height_scale ]

InitPlacement ==
    /\ cfg \in {PlacementCfg(h) : h \in HeightScales}
    /\ rng = Free
    /\ PoissonIdle
    /\ PathIdle
    /\ SelectIdle
    /\ CollisionIdle
    /\ TerrainIdle
    /\ PlacementIdle
    /\ MainIdle

\* a caller's generate_placements(path_pts, tscn_paths)
CallGeneratePlacements ==
    \E path \in PlacementPaths, roles \in PlacementRoles :
        PlacementBegin(path, roles)

NextPlacement ==
    \/ CallGeneratePlacements
    \/ ClearingStep
    \/ SamplePoints
    \/ PoissonPick
    \/ PoissonTry
    \/ PoissonExhaust
    \/ PoissonReturn
    \/ TreePassBegin
    \/ TreeStep
    \/ TreePassEnd
    \/ GeneralStep
    \/ SatelliteStep
    \/ GeneralPassEnd
    \/ GrassPassBegin
    \/ GrassStep
    \/ GrassPassEnd

SpecPlacement == InitPlacement /\ [][NextPlacement]_vars

-----------------------------------------------------------------------------
(* The program run twice in the same world                                 *)

\* the worlds of the runs: ground cover resolved by fuzzy matching, with and
\* without the new tree pack
MainWorlds ==
    { [exact |-> <<"tree_bare_1", "fern_1">>, fuzzy |-> {"grass_1", "grass_2"},
       new_trees |-> <<"new_tree_pack">>],
      [exact |-> <<"tree_bare_1", "fern_1", "grass_1">>, fuzzy |-> {},
       new_trees |-> <<>>] }

\* the configuration of the runs: the one of PlacementCfg with a path of
\* four control points over 12 units
MainCfg(seed) ==
    [ PlacementCfg(0) EXCEPT !.SEED = seed, !.PATH_LENGTH = 600 ]

\* SEED of the runs
MainSeeds == {53}

InitMain ==
    /\ cfg \in {MainCfg(seed) : seed \in MainSeeds}
    /\ rng = Free
    /\ PoissonIdle
    /\ PathIdle
    /\ SelectIdle
    /\ CollisionIdle
    /\ TerrainIdle
    /\ PlacementIdle
    /\ main_pc = "start"
    /\ run = 1
    /\ world \in MainWorlds
    /\ tscn_paths = <<>>
    /\ secondary_paths = <<>>
    /\ first_run = <<>>

NextMain ==
    \/ MainSeed
    \/ MainControlPoints
    \/ CtrlStep
    \/ CtrlReturn
    \/ MainSamplePath
    \/ MainSecondaryPaths
    \/ MainPlacements
    \/ ClearingStep
    \/ SamplePoints
    \/ PoissonPick
    \/ PoissonTry
    \/ PoissonExhaust
    \/ PoissonReturn
    \/ TreePassBegin
    \/ TreeStep
    \/ TreePassEnd
    \/ GeneralStep
    \/ SatelliteStep
    \/ GeneralPassEnd
    \/ GrassPassBegin
    \/ GrassStep
    \/ GrassPassEnd
    \/ SecondRun

SpecMain == InitMain /\ [][NextMain]_vars

-----------------------------------------------------------------------------
(* Claims about generate_placements (checked under SpecPlacement)          *)

\* the placements whose position went into the ledger placed_positions: the
\* ones of the tree pass, of the general pass and of add_cluster_objects
Ledgered == {i \in 1..Len(placements) : placed_by[i] # "grass"}

\* the square of the (x, z) distance of placements i and j
PlacementDistSq(i, j) ==
    distance_squared(placements[i].x, placements[i].z,
                     placements[j].x, placements[j].z)

\* C1: in every state of generate_placements, any two distinct placements of
\* the tree pass, the general pass or the satellite clustering are at (x, z)
\* distance at least the larger of their two roles' min_spacing.
C1_MinimumSpacing ==
    \A i \in Ledgered : \A j \in Ledgered \ {i} :
        LET m == Max(get_asset_props(placements[i].role).min_spacing,
                     get_asset_props(placements[j].role).min_spacing)
        IN  PlacementDistSq(i, j) >= m * m

\* a finished run that placed a tree in the tree pass, an object in the
\* general pass and a satellite next to it, nearer than a tree's spacing
C1_Witness ==
    /\ pc = "done"
    /\ \E i \in Ledgered : placed_by[i] = "tree"
    /\ \E i \in Ledgered : \E j \in Ledgered :
           /\ placed_by[i] = "general"
           /\ placed_by[j] = "satellite"
           /\ PlacementDistSq(i, j) < 200 * 200

\* C2: after generate_placements no placement of a non-grass role, whichever
\* step created it, lies strictly inside a clearing of the run.
C2_ClearingExclusion ==
    pc = "done" =>
        \A i \in 1..Len(placements) :
            ~Contains(placements[i].role, "grass_") =>
                ~is_in_clearing(placements[i].x, placements[i].z, clearings)

\* a finished run with a satellite of a non-grass role inside a clearing,
\* next to a parent that is outside of it
C2_SatelliteInClearing ==
    /\ pc = "done"
    /\ \E i \in 1..Len(placements) :
           /\ placed_by[i] = "satellite"
           /\ ~Contains(placements[i].role, "grass_")
           /\ is_in_clearing(placements[i].x, placements[i].z, clearings)
    /\ \A i \in 1..Len(placements) :
           placed_by[i] # "satellite" =>
               ~is_in_clearing(placements[i].x, placements[i].z, clearings)

\* the height a placement was accepted at: its y without the role's y_offset
AcceptedHeight(i) ==
    placements[i].y - get_asset_props(placements[i].role).y_offset

\* C3: every placement, whichever step appended it, was accepted at a height
\* h with min_altitude <= h <= max_altitude of its role, h being what
\* get_terrain_height(x, z, path_pts), path flattening included, returns.
C3_AltitudeGating ==
    \A i \in 1..Len(placements) :
        LET props == get_asset_props(placements[i].role)
        IN  /\ props.min_altitude <= AcceptedHeight(i)
            /\ AcceptedHeight(i) <= props.max_altitude
            /\ AcceptedHeight(i) =
                   get_terrain_height(heightmap_cache, terrain_noise_cache,
                                      placements[i].x, placements[i].z,
                                      main_path).value

\* a finished run on a terrain with relief: a ground-cover patch accepted above
\* the ground level, and a ground-cover point that is free (outside the
\* clearings, a unit away from every object) but too high, without a patch
C3_Witness ==
    /\ pc = "done"
    /\ \E i \in 1..Len(placements) :
           placed_by[i] = "grass" /\ AcceptedHeight(i) > 0
    /\ \E k \in 1..Len(grass_points) :
           LET jx == grass_points[k][1]
               jz == grass_points[k][2]
           IN  /\ ~is_in_clearing(jx, jz, clearings)
               /\ \A i \in 1..Len(placed_positions) :
                      distance_squared(placed_positions[i][1],
                                       placed_positions[i][2], jx, jz)
                          >= 50 * 50
               /\ ~PassesHeightGate("grass_1", jx, jz)
               /\ \A i \in 1..Len(placements) :
                      placements[i].x # jx \/ placements[i].z # jz

-----------------------------------------------------------------------------
(* Claims about the whole program (checked under SpecMain)                 *)

\* the second run has finished, in the world of the first one: same seed,
\* same configuration, same set of available roles
BothRunsDone ==
    /\ run = 2
    /\ main_pc = "paths"
    /\ pc = "done"
    /\ Range(first_run.keys) = Range(tscn_paths)

\* C5: two runs that start with random.seed(SEED) and clear_terrain_cache(),
\* with the same configuration and the same set of available roles, produce
\* the same control points, main and secondary paths, placement list and
\* pond list.
C5_Determinism ==
    BothRunsDone =>
        /\ first_run.ctrl_pts = ctrl_pts
        /\ first_run.path_pts = path_pts
        /\ first_run.secondary_paths = secondary_paths
        /\ first_run.placements = placements
        /\ first_run.ponds = ponds

\* two finished runs with the same paths and ponds whose placement lists
\* differ: tscn_paths had the same keys in another order
C5_OrderChangesPlacements ==
    /\ BothRunsDone
    /\ first_run.keys # tscn_paths
    /\ first_run.ctrl_pts = ctrl_pts
    /\ first_run.path_pts = path_pts
    /\ first_run.secondary_paths = secondary_paths
    /\ secondary_paths # <<>>
    /\ first_run.ponds = ponds
    /\ first_run.placements # placements

\* two runs whose tscn_paths has its keys in the same order produce the same
\* outputs
SameKeyOrderSameOutputs ==
    (BothRunsDone /\ first_run.keys = tscn_paths) => first_run = Outputs

-----------------------------------------------------------------------------
(* Claims about the sampler (checked under SpecPoisson)                    *)

\* C4: every point the sampler holds, and every point it returns, lies in
\* the requested rectangle, and any two distinct ones are at least `radius`
\* apart; generate_poisson_points_in_area returns exactly those points moved
\* by (x_min, z_min), so they lie in [x_min, x_max] x [z_min, z_max] with the
\* same separation.
C4_PoissonBoundsAndSpacing ==
    /\ \A i \in 1..Len(points) :
           /\ 0 <= points[i][1] /\ points[i][1] <= width
           /\ 0 <= points[i][2] /\ points[i][2] <= height
    /\ \A i \in 1..Len(points) : \A j \in 1..Len(points) :
           i # j => distance_squared(points[i][1], points[i][2],
                                     points[j][1], points[j][2])
                        >= radius * radius
    /\ ppc = "done" =>
           /\ Len(world_points) = Len(points)
           /\ \A i \in 1..Len(world_points) :
                  /\ world_points[i][1] = area[1] + points[i][1]
                  /\ world_points[i][2] = area[2] + points[i][2]
                  /\ area[1] <= world_points[i][1]
                  /\ world_points[i][1] <= area[1] + width
                  /\ area[2] <= world_points[i][2]
                  /\ world_points[i][2] <= area[2] + height
           /\ \A i \in 1..Len(world_points) : \A j \in 1..Len(world_points) :
                  i # j => distance_squared(world_points[i][1], world_points[i][2],
                                            world_points[j][1], world_points[j][2])
                               >= radius * radius

\* C4 witness: a translated call has returned three points
C4_Witness ==
    /\ ppc = "done"
    /\ area # <<0, 0>>
    /\ Len(world_points) >= 3

\* no attempt around the start point can be accepted: the budget is zero, or
\* every candidate around the region centre falls outside the region
NothingFitsAroundSeed ==
    \/ samples = 0
    \/ \A a \in 1..AngleLevels, d \in 0..(DistLevels - 1) :
           LET c == Candidate(<<width \div 2, height \div 2>>, a, d)
           IN  c[1] < 0 \/ c[1] >= width \/ c[2] < 0 \/ c[2] >= height

-----------------------------------------------------------------------------
(* Claims about the path functions (checked under SpecPath)                *)

\* C8: the value sample_path returns for a control-point list and a samples
\* argument of at least 1 is a non-empty list whose last point is the last
\* control point and whose first point is the first control point.
C8_PathEndpoints ==
    path_pc = "sampled" =>
        /\ path_pts # <<>>
        /\ path_pts[Len(path_pts)] = ctrl_pts[Len(ctrl_pts)]
        /\ path_pts[1] = ctrl_pts[1]

\* C8 witness: a bent path of four control points sampled three times per
\* segment, whose spline samples are not all control points
C8_Witness ==
    /\ path_pc = "sampled"
    /\ Len(ctrl_pts) = 4
    /\ path_samples = 3
    /\ Len(path_pts) = 10
    /\ ctrl_pts[2][1] # ctrl_pts[3][1]
    /\ \E k \in 1..Len(path_pts) :
           \A i \in 1..Len(ctrl_pts) : path_pts[k] # ctrl_pts[i]

-----------------------------------------------------------------------------
(* Claims about the selection (checked under SpecSelect)                   *)

\* the roles of the last call's weighted list that carry a positive weight
PositiveRoles ==
    LET weighted == Weighted(sel_biome, sel_available)
    IN  {weighted[i][1] : i \in {j \in 1..Len(weighted) : weighted[j][2] > 0}}

\* C7 as claimed: while some available role has positive weight, the role
\* select_asset_for_biome returns is never one whose category weight is 0,
\* whatever the draw (0 included); on the table {a: 0.0, b: 1.0} with one
\* available role each it returns b's role.
C7_ZeroWeightNeverSelected ==
    (sel_pc = "returned" /\ PositiveRoles # {}) =>
        /\ selected \in PositiveRoles
        /\ (sel_biome \in {"ab", "ba"} /\ cfg = ScenarioCfg
              /\ Len(sel_available) = 2
              /\ \A i \in 1..2 : sel_available[i] \in {"role_a", "role_b"})
               => selected = "role_b"

\* C7 witness of the failure: on the table {a: 0.0, b: 1.0} with both roles
\* available the call has returned a's role
C7_ZeroWeightSelected ==
    /\ sel_pc = "returned"
    /\ cfg = ScenarioCfg
    /\ sel_biome = "ab"
    /\ sel_available = <<"role_a", "role_b">>
    /\ selected = "role_a"

-----------------------------------------------------------------------------
(* Claims about the height field (checked under SpecTerrain)               *)

\* C9: a get_terrain_height call returns the value the first call with the
\* same arguments returned since the last clear_terrain_cache(), whatever
\* other points (of the same cache cell or not) were queried in between.
C9_RepeatedQueryConsistent ==
    t_pc = "returned" => t_height = first_returned[t_args]

\* C9 witness: on a terrain with relief, a flattened query is repeated after
\* a query of another point of the same cache cell returned another value
C9_Witness ==
    /\ t_pc = "returned"
    /\ t_repeated
    /\ cfg.TERRAIN_HEIGHT_SCALE # 0
    /\ t_args[3] # <<>>
    /\ t_height # 0
    /\ \E a \in DOMAIN first_returned :
           /\ <<a[1], a[2]>> # <<t_args[1], t_args[2]>>
           /\ CacheKey(a[1], a[2]) = CacheKey(t_args[1], t_args[2])
           /\ first_returned[a] # t_height

\* C10 as claimed: the value get_terrain_height returns for (x, z) and a
\* path is the height computed for that point and flattened by that path,
\* whatever was queried before and whether or not the cache was cleared.
C10_HeightDependsOnlyOnPoint ==
    t_pc = "returned" =>
        t_height = Flattened(ComputedHeight(<<>>, t_args[1], t_args[2]),
                             t_args[1], t_args[2], t_args[3])

-----------------------------------------------------------------------------
(* generate_placements with an empty role catalog                          *)

\* the configuration of the runs: SCATTER_OUTER and CLEARING_RADIUS in the
\* shipped proportion (14.0 to 8.0): a clearing reaches at most
\* 1.3 * CLEARING_RADIUS from its path point and leaves the rim of the band
\* free, for the sample points that fall there
EmptyCatalogCfg(seed) ==
    [ DefaultCfg EXCEPT !.SEED = seed,
                        !.SCATTER_OUTER = 175,
                        !.CLEARING_RADIUS = 100 ]

\* the SEED values, the paths and the role lists of the runs
EmptyCatalogSeeds == {42, 18}
EmptyCatalogPaths == { << <<0, 600>> >>, << <<0, 0>>, <<0, 50>> >> }
EmptyCatalogRoles == { <<>>, <<"fern_1">> }

InitEmptyCatalog ==
    /\ cfg \in {EmptyCatalogCfg(seed) : seed \in EmptyCatalogSeeds}
    /\ rng = Free
    /\ PoissonIdle
    /\ PathIdle
    /\ SelectIdle
    /\ CollisionIdle
    /\ TerrainIdle
    /\ PlacementIdle
    /\ MainIdle

\* a caller's generate_placements(path_pts, tscn_paths), tscn_paths possibly {}
CallGeneratePlacementsAnyCatalog ==
    \E path \in EmptyCatalogPaths, roles \in EmptyCatalogRoles :
        PlacementBegin(path, roles)

NextEmptyCatalog ==
    \/ CallGeneratePlacementsAnyCatalog
    \/ ClearingStep
    \/ SamplePoints
    \/ PoissonPick
    \/ PoissonTry
    \/ PoissonExhaust
    \/ PoissonReturn
    \/ TreePassBegin
    \/ GeneralStep
    \/ GeneralPassEnd

SpecEmptyCatalog == InitEmptyCatalog /\ [][NextEmptyCatalog]_vars

\* the sample points from index i on that reach select_asset_for_biome
ReachSelection(i) ==
    { j \in (i + 1)..Len(poisson_points) :
        /\ ~is_in_clearing(poisson_points[j][1], poisson_points[j][2], clearings)
        /\ ~OutsideScatter(poisson_points[j][1], poisson_points[j][2],
                           main_path) }

Generated == ctrl_call # <<0, 0, 0>>

NamesEmptyCategory ==
    LET table == BiomeWeights(sel_biome)
    IN  \E i \in 1..Len(table) :
            \/ table[i][1] \notin DOMAIN cfg.ASSET_CATEGORIES
            \/ \A k \in 1..Len(sel_available) :
                   ~InList(sel_available[k], cfg.ASSET_CATEGORIES[table[i][1]])

\* the available roles that are members of a category the table names
NamedRoles ==
    LET table == BiomeWeights(sel_biome)
    IN  { r \in Range(sel_available) :
            \E i \in 1..Len(table) :
                /\ table[i][1] \in DOMAIN cfg.ASSET_CATEGORIES
                /\ InList(r, cfg.ASSET_CATEGORIES[table[i][1]]) }

\* C13 as claimed: select_asset_for_biome on a biome whose table names a
\* category without member roles, or one missing from the category map,
\* reports an error and returns no role.
C13_EmptyCategoryIsError ==
    (sel_pc = "returned" /\ NamesEmptyCategory) => selected = "IndexError"

\* C13: select_asset_for_biome skips a category that is missing or has no
\* available member: it returns an available role of a named category when
\* there is one, any available role otherwise, and raises only when no role is
\* available at all.
C13_EmptyCategorySkipped ==
    sel_pc = "returned" =>
        /\ (selected = "IndexError") <=> (sel_available = <<>>)
        /\ sel_available # <<>> =>
               selected \in (IF NamedRoles # {} THEN NamedRoles
                             ELSE Range(sel_available))

\* the call on biome "gap" returned the bush, the only member of a category
\* its table names
C13_Witness ==
    /\ sel_pc = "returned"
    /\ cfg = EmptyCategoryCfg
    /\ sel_biome = "gap"
    /\ sel_available = <<"fern_1", "bush_round_1">>
    /\ NamesEmptyCategory
    /\ selected = "bush_round_1"

\* C14 as claimed: tangent_at raises for no path: on a path of a single
\* sample point it clamps to that point and returns a value, and on
\* coincident neighbouring samples it returns a finite vector (its divisor l
\* is not 0).
C14_DegenerateTangentReturned ==
    tan_call.i >= 0 =>
        /\ ~tan_call.raised
        /\ tan_call.value[3] > 0

\* tangent_at raised on a sampled path of one point
C14_OnePointPathRaises ==
    /\ path_pc = "sampled"
    /\ Len(path_pts) = 1
    /\ tan_call.i = 0
    /\ tan_call.raised

\* one iteration of the `while spawn_points` loop has ended
IterationEnds == ppc = "try" /\ ppc' = "loop"

\* C15: poisson_disc_sampling, once entered, returns, whatever the draws:
\* the spawn list becomes empty; and each iteration of its loop either
\* accepts one new point (one more point, one more spawn point) or removes one
\* spawn point (the points unchanged).
C15_PoissonTerminates ==
    /\ (ppc \in {"loop", "try"}) ~> (ppc = "done" /\ spawn_points = <<>>)
    /\ [][ IterationEnds =>
             \/ /\ Len(points') = Len(points) + 1
                /\ Len(spawn_points') = Len(spawn_points) + 1
             \/ /\ points' = points
                /\ Len(spawn_points') = Len(spawn_points) - 1 ]_vars

\* a call with a positive attempt budget that accepted points, exhausted
\* every spawn point and returned
C15_Witness ==
    /\ ppc = "done"
    /\ samples > 0
    /\ Len(points) >= 2
    /\ spawn_points = <<>>

-----------------------------------------------------------------------------
(* Claims about the placement list and the ledger (checked under           *)
(* SpecPlacement)                                                          *)

\* the pass a placement belongs to: 1 tree pass, 2 general pass (satellites
\* included), 3 ground cover
PassOf(i) ==
    CASE placed_by[i] = "tree" -> 1
      [] placed_by[i] \in {"general", "satellite"} -> 2
      [] OTHER -> 3

\* the index in poisson_points of the sample point placement i stands on
CandidateIndex(i) ==
    CHOOSE k \in 1..Len(poisson_points) :
        poisson_points[k] = <<placements[i].x, placements[i].z>>

\* whether list a is a prefix of list b
IsPrefix(a, b) ==
    /\ Len(a) <= Len(b)
    /\ \A i \in 1..Len(a) : a[i] = b[i]

\* C16: in the placement list every tree-pass placement precedes every
\* general-pass placement and satellite, which precede every ground-cover
\* placement; general-pass placements are in the order of their sample
\* points, a satellite following its parent; and the list only grows, each
\* state of it being a prefix of the next.
C16_InsertionOrder ==
    /\ [](\A i \in 1..Len(placements) : \A j \in (i + 1)..Len(placements) :
            /\ PassOf(i) <= PassOf(j)
            /\ (placed_by[i] = "general" /\ placed_by[j] = "general")
                   => CandidateIndex(i) < CandidateIndex(j))
    /\ [](\A j \in 1..Len(placements) :
            placed_by[j] = "satellite" =>
                \E i \in 1..(j - 1) : placed_by[i] = "general")
    /\ [][IsPrefix(placements, placements')]_vars

\* a finished run whose list holds a tree of the priority pass, two
\* general-pass placements and a ground-cover patch
C16_Witness ==
    /\ pc = "done"
    /\ \E i, j, k, l \in 1..Len(placements) :
          /\ placed_by[i] = "tree"
          /\ placed_by[j] = "general"
          /\ placed_by[k] = "general"
          /\ j # k
          /\ placed_by[l] = "grass"

\* C17: placed_positions only grows, each state of it a prefix of the next;
\* it holds exactly one entry (x, z, min_spacing(role)) for each placement of
\* the tree pass, the general pass and the satellite clustering, in the
\* order of the placement list; and a step that appends no placement appends
\* no entry.
C17_LedgerMirrorsPlacements ==
    /\ [](/\ Len(placed_positions) = Cardinality(Ledgered)
          /\ \A i \in 1..Len(placed_positions) :
                /\ i \in Ledgered
                /\ placed_positions[i] =
                       << placements[i].x, placements[i].z,
                          get_asset_props(placements[i].role).min_spacing >>)
    /\ [][/\ IsPrefix(placed_positions, placed_positions')
          /\ Len(placed_positions') <= Len(placed_positions) + 1
          /\ placements' = placements => placed_positions' = placed_positions
         ]_vars

\* a finished run whose ledger holds a tree, two general-pass objects and a
\* satellite, after at least one sample point was rejected
C17_Witness ==
    /\ pc = "done"
    /\ Len(placed_positions) = 4
    /\ placed_by = <<"tree", "general", "general", "satellite">>
    /\ Len(poisson_points) > 3

-----------------------------------------------------------------------------
(* Claims about the terrain passes (checked under SpecTerrain)             *)

\* the last call is the only query since the caches were last empty, and it
\* had no path: the value it returned is the height it computed
FirstUnflattenedQuery ==
    /\ t_pc = "returned"
    /\ t_args[3] = <<>>
    /\ DOMAIN first_returned = {t_args}
    /\ ~t_repeated

\* the running total after the passes from pass_idx on when a "base" pass
\* replaces the total h with its own value
RECURSIVE TotalWhenBaseReplaces(_, _, _, _)
TotalWhenBaseReplaces(x, z, pass_idx, h) ==
    IF pass_idx >= Len(cfg.TERRAIN_PASSES) THEN h
    ELSE LET blend == cfg.TERRAIN_PASSES[pass_idx + 1].blend
             v == PassValue(<<>>, x, z, pass_idx)
         IN  TotalWhenBaseReplaces(x, z, pass_idx + 1,
                 IF blend = "base" THEN v ELSE BlendPasses(h, v, blend))

\* C19 as claimed: a "base" pass replaces the running total with its own
\* value, so the height computed with the default TERRAIN_PASSES is the first
\* pass's value plus the positive part of the second's, normalised and
\* scaled.
C19_BaseBlendReplaces ==
    FirstUnflattenedQuery =>
        t_height = ((TotalWhenBaseReplaces(t_args[1], t_args[2], 0, 0)
                        + HeightUnit) * cfg.TERRAIN_HEIGHT_SCALE) \div 2

\* on a terrain with relief a height was computed at a point where the base
\* pass's value is not 0, and it is the height of the second pass alone
C19_BasePassIgnored ==
    /\ FirstUnflattenedQuery
    /\ cfg.TERRAIN_HEIGHT_SCALE # 0
    /\ PassValue(<<>>, t_args[1], t_args[2], 0) # 0
    /\ t_height = ((Max(0, PassValue(<<>>, t_args[1], t_args[2], 1))
                       + HeightUnit) * cfg.TERRAIN_HEIGHT_SCALE) \div 2

-----------------------------------------------------------------------------
(* check_collision on its own: a ledger of up to MaxLedger entries and one *)
(* candidate, positions on a 3-4-5 lattice so that distances are exact     *)

\* longest ledger handed to check_collision
MaxLedger == 2

CollisionXs == {0, 60}
CollisionZs == {0, 80}
CollisionSpacings == {60, 100, 125}

LedgerEntries ==
    {<<px, pz, s>> : px \in CollisionXs, pz \in CollisionZs,
                     s \in CollisionSpacings}

Ledgers ==
    UNION {[1..n -> LedgerEntries] : n \in 0..MaxLedger}

InitCollision ==
    /\ cfg = DefaultCfg
    /\ rng = Free
    /\ PoissonIdle
    /\ PathIdle
    /\ SelectIdle
    /\ TerrainIdle
    /\ PlacementIdle
    /\ MainIdle
    /\ \E placed_positions_arg \in Ledgers :
         col_call = [placed |-> placed_positions_arg, x |-> 0, z |-> 0,
                     min_dist |-> 0, returned |-> FALSE, result |-> FALSE]

\* check_collision(x, z, placed_positions, min_dist) on the ledger of the state
CallCheckCollision ==
    /\ \E x \in CollisionXs, z \in CollisionZs, min_dist \in CollisionSpacings :
         col_call' = [col_call EXCEPT
                        !.x = x, !.z = z, !.min_dist = min_dist,
                        !.returned = TRUE,
                        !.result = check_collision(x, z, col_call.placed,
                                                   min_dist)]
    /\ UNCHANGED outsideCollision

NextCollision == CallCheckCollision

SpecCollision == InitCollision /\ [][NextCollision]_vars

-----------------------------------------------------------------------------
(* Claims about check_collision (checked under SpecCollision)              *)

\* squared distance from the candidate of the call to the ledger entry i
CallDistSq(i) ==
    (col_call.placed[i][1] - col_call.x) * (col_call.placed[i][1] - col_call.x)
        + (col_call.placed[i][2] - col_call.z)
            * (col_call.placed[i][2] - col_call.z)

\* the larger of the candidate's spacing and the spacing of the ledger entry i
CallMaxSpacing(i) ==
    IF col_call.placed[i][3] > col_call.min_dist
    THEN col_call.placed[i][3] ELSE col_call.min_dist

\* C20: check_collision(x, z, ledger, s_new) returns True exactly when some
\* ledger entry (px, pz, s_existing) is at a distance d < max(s_existing,
\* s_new) from (x, z); for every ledger entry the verdict on the pair is the
\* same when the roles are exchanged (the candidate is the recorded entry and
\* the entry is the candidate); and when every entry is at least at its
\* checked distance, one of them at exactly that distance, the call reports no
\* collision.
C20_CollisionRule ==
    col_call.returned =>
        /\ col_call.result
             <=> \E i \in 1..Len(col_call.placed) :
                    CallDistSq(i) < CallMaxSpacing(i) * CallMaxSpacing(i)
        /\ \A i \in 1..Len(col_call.placed) :
              check_collision(col_call.x, col_call.z,
                              << col_call.placed[i] >>, col_call.min_dist)
                <=> check_collision(col_call.placed[i][1],
                                    col_call.placed[i][2],
                                    << <<col_call.x, col_call.z,
                                         col_call.min_dist>> >>,
                                    col_call.placed[i][3])
        /\ ( /\ \E i \in 1..Len(col_call.placed) :
                   CallDistSq(i) = CallMaxSpacing(i) * CallMaxSpacing(i)
             /\ \A i \in 1..Len(col_call.placed) :
                   CallDistSq(i) >= CallMaxSpacing(i) * CallMaxSpacing(i) )
             => ~col_call.result

\* a call on a ledger of two entries returned no collision although one entry,
\* of a spacing other than the candidate's, is at exactly the checked distance
C20_Witness ==
    /\ col_call.returned
    /\ ~col_call.result
    /\ Len(col_call.placed) = 2
    /\ \E i \in 1..Len(col_call.placed) :
          /\ CallDistSq(i) = CallMaxSpacing(i) * CallMaxSpacing(i)
          /\ CallDistSq(i) > 0
          /\ col_call.placed[i][3] # col_call.min_dist

-----------------------------------------------------------------------------
(* generate_placements with boulders and small rocks, or bushes and flowers *)

\* list(tscn_paths.keys()) of the runs
ClusterRoles ==
    { <<"rock_boulder_1", "rock_small_1">>, <<"bush_round_1", "flower_1">> }

\* a caller's generate_placements(path_pts, tscn_paths)
CallGeneratePlacementsCluster ==
    \E path \in PlacementPaths, roles \in ClusterRoles :
        PlacementBegin(path, roles)

NextCluster ==
    \/ CallGeneratePlacementsCluster
    \/ ClearingStep
    \/ SamplePoints
    \/ PoissonPick
    \/ PoissonTry
    \/ PoissonExhaust
    \/ PoissonReturn
    \/ TreePassBegin
    \/ GeneralStep
    \/ SatelliteStep
    \/ GeneralPassEnd

SpecCluster == InitPlacement /\ [][NextCluster]_vars

-----------------------------------------------------------------------------
(* Claims about satellite clustering (checked under SpecCluster)           *)

\* the roles of the categories the clustering is meant for: trees, large
\* rocks (the boulders) and bushes
InClusterCategory(role) ==
    \E c \in {"trees", "trees_bare", "boulders", "bushes"} :
        InList(role, cfg.ASSET_CATEGORIES[c])

\* C21 as claimed: every placement the general pass accepted whose role is a
\* tree, a boulder or a bush is a role around which add_cluster_objects is
\* invoked, and around a boulder the satellite candidates are the available
\* small-rock and moss roles.
C21_ClusteringEligibility ==
    \A i \in 1..Len(placements) :
        (placed_by[i] = "general" /\ InClusterCategory(placements[i].role)) =>
            /\ ClusterEligible(placements[i].role)
            /\ InList(placements[i].role, cfg.ASSET_CATEGORIES["boulders"]) =>
                  ClusterCandidates(placements[i].role, available)
                      = SelectSeq(available,
                                  LAMBDA r : Contains(r, "rock_small")
                                               \/ Contains(r, "moss"))

\* a finished run that accepted a boulder with a small-rock role available:
\* the boulder's name holds none of the words "tree", "rock_large", "bush", so
\* add_cluster_objects was not invoked and the run has no satellite
C21_BoulderWithoutCluster ==
    /\ pc = "done"
    /\ InList("rock_small_1", available)
    /\ \E i \in 1..Len(placements) :
          /\ placed_by[i] = "general"
          /\ placements[i].role = "rock_boulder_1"
    /\ \A i \in 1..Len(placements) : placed_by[i] # "satellite"

\* C22: add_cluster_objects, once it attempts satellites, attempts between 1
\* and 3 of them, one per iteration; every satellite it accepts has a role of
\* the candidates, lies at a distance d from the parent with s <= d <= 2.5 * s
\* (s its role's min_spacing), does not collide with the ledger as it stands,
\* passes the altitude check of its role, and is appended to the placement
\* list and to the ledger; so every placement recorded in the ledger after a
\* satellite keeps the larger of the two spacings from it.
C22_SatellitePlacement ==
    /\ [](pc = "cluster" => (sat_left \in 1..3 /\ cluster_candidates # <<>>))
    /\ [][pc = "cluster" =>
            /\ sat_left' = sat_left - 1
            /\ Len(placements') <= Len(placements) + 1
            /\ Len(placements') = Len(placements) + 1 =>
                 LET p == placements'[Len(placements')]
                     props == get_asset_props(p.role)
                     s == props.min_spacing
                     d_sq == distance_squared(p.x, p.z,
                                              sat_parent[1], sat_parent[2])
                 IN  /\ InList(p.role, cluster_candidates)
                     /\ s * s <= d_sq
                     /\ 4 * d_sq <= 25 * s * s
                     /\ ~check_collision(p.x, p.z, placed_positions, s)
                     /\ check_altitude_constraint(p.y - props.y_offset, props)
                     /\ placed_by' = Append(placed_by, "satellite")
                     /\ placed_positions'
                            = Append(placed_positions, <<p.x, p.z, s>>)
         ]_vars
    /\ [](\A i \in Ledgered : \A j \in Ledgered :
            (placed_by[i] = "satellite" /\ j > i) =>
                LET m == Max(get_asset_props(placements[i].role).min_spacing,
                             get_asset_props(placements[j].role).min_spacing)
                IN  PlacementDistSq(i, j) >= m * m)

\* a finished run in which one bush got two satellites and a later sample
\* point was accepted after them
C22_Witness ==
    /\ pc = "done"
    /\ \E i \in 1..Len(placements) :
          /\ i + 3 <= Len(placements)
          /\ placed_by[i] = "general"
          /\ placed_by[i + 1] = "satellite"
          /\ placed_by[i + 2] = "satellite"
          /\ placed_by[i + 3] = "general"

-----------------------------------------------------------------------------
(* Claims about the sampler's active list and grid (checked under          *)
(* SpecPoisson)                                                            *)

\* the start point of the sampler, the centre of the region
StartPoint == <<width \div 2, height \div 2>>

\* whether p is one of the accepted points
InPoints(p) == \E k \in 1..Len(points) : points[k] = p

\* C23 as claimed: every point of the active list spawn_points, the start
\* point at the region's centre included, is one of the accepted points, which
\* only grow and are what the sampler returns.
C23_ActivePointsAreReturned ==
    /\ ppc \in {"loop", "try"} =>
          \A i \in 1..Len(spawn_points) : InPoints(spawn_points[i])
    /\ ppc = "done" =>
          world_points = WorldPoints(points, area[1], area[2])

\* the sampler returned two points or more, none of them the start point,
\* which was the first entry of the active list
C23_StartPointNotReturned ==
    /\ ppc = "done"
    /\ Len(points) >= 2
    /\ ~InPoints(StartPoint)

\* the cells of the background grid
GridCells == (0..(grid_width - 1)) \X (0..(grid_height - 1))

\* C24: the grid has a cell for every accepted point within its bounds; a
\* non-zero entry k of a cell means points[k] lies in that cell (cell size
\* radius / sqrt(2)); no two cells hold the same index and every accepted
\* point is recorded in its cell, so a cell holds at most one point; and a
\* step writes a cell only when it is empty, never over an entry.
C24_GridInvariant ==
    /\ [](ppc \in {"loop", "try", "done"} =>
            /\ DOMAIN grid = GridCells
            /\ \A c \in GridCells :
                  grid[c] # 0 =>
                      /\ grid[c] \in 1..Len(points)
                      /\ c = << CellIndex(points[grid[c]][1], radius),
                                CellIndex(points[grid[c]][2], radius) >>
            /\ \A k \in 1..Len(points) :
                  /\ << CellIndex(points[k][1], radius),
                        CellIndex(points[k][2], radius) >> \in GridCells
                  /\ grid[<< CellIndex(points[k][1], radius),
                             CellIndex(points[k][2], radius) >>] = k)
    /\ [][(ppc \in {"loop", "try"}) =>
            \A c \in GridCells : grid[c] # 0 => (grid'[c] = grid[c])
      ]_vars

\* the sampler returned with two accepted points in neighbouring cells
C24_Witness ==
    /\ ppc = "done"
    /\ \E j \in 1..Len(points), k \in 1..Len(points) :
          /\ j # k
          /\ CellIndex(points[j][2], radius) = CellIndex(points[k][2], radius)
          /\ CellIndex(points[j][1], radius) + 1 = CellIndex(points[k][1], radius)

-----------------------------------------------------------------------------
(* Claims about the height cache and flattening (checked under SpecTerrain) *)

\* C25: the height cache only holds heights as computed before flattening
\* (each entry the computed height of a queried point of its cell); a call
\* leaves the entries it finds as they are and adds at most the one of its own
\* cell, whatever its path argument; and the value a call returns, on a cache
\* hit and on a miss alike, is the entry of the point's cell flattened by the
\* call's own path, or the entry itself when the call has no path.
C25_FlatteningNeverCached ==
    /\ [](\A k \in DOMAIN heightmap_cache :
            \E p \in TerrainPoints :
                /\ CacheKey(p[1], p[2]) = k
                /\ heightmap_cache[k] = ComputedHeight(<<>>, p[1], p[2]))
    /\ [](t_pc = "returned" =>
            /\ CacheKey(t_args[1], t_args[2]) \in DOMAIN heightmap_cache
            /\ t_height =
                 Flattened(heightmap_cache[CacheKey(t_args[1], t_args[2])],
                           t_args[1], t_args[2], t_args[3])
            /\ t_args[3] = <<>> =>
                 t_height = heightmap_cache[CacheKey(t_args[1], t_args[2])])
    /\ [][t_pc' = "returned" =>
            /\ \A k \in DOMAIN heightmap_cache :
                  /\ k \in DOMAIN heightmap_cache'
                  /\ heightmap_cache'[k] = heightmap_cache[k]
            /\ DOMAIN heightmap_cache' \subseteq
                   DOMAIN heightmap_cache
                       \cup {CacheKey(t_args'[1], t_args'[2])}
         ]_vars

\* on terrain with relief a query with the path hit the cache and returned a
\* flattened value, other than the cached one, after the same point had been
\* queried without a path and had returned the cached value
C25_Witness ==
    /\ t_pc = "returned"
    /\ t_repeated
    /\ t_args[3] # <<>>
    /\ t_height # heightmap_cache[CacheKey(t_args[1], t_args[2])]
    /\ <<t_args[1], t_args[2], <<>>>> \in DOMAIN first_returned
    /\ first_returned[<<t_args[1], t_args[2], <<>>>>]
           = heightmap_cache[CacheKey(t_args[1], t_args[2])]

-----------------------------------------------------------------------------
(* Claims about the scatter band and the ground cover (checked under       *)
(* SpecPlacement)                                                          *)

\* the square of the distance from placement i to the main path point j
PathPointDistSq(i, j) ==
    distance_squared(placements[i].x, placements[i].z,
                     main_path[j][1], main_path[j][2])

\* C26: every placement of the tree pass or of the general pass is at a
\* distance d from the nearest point of the main path with
\* SCATTER_INNER <= d <= SCATTER_OUTER: no path point is nearer than
\* SCATTER_INNER and some path point is within SCATTER_OUTER.
C26_ScatterAnnulus ==
    \A i \in 1..Len(placements) :
        placed_by[i] \in {"tree", "general"} =>
            /\ \A j \in 1..Len(main_path) :
                  PathPointDistSq(i, j) >= cfg.SCATTER_INNER * cfg.SCATTER_INNER
            /\ \E j \in 1..Len(main_path) :
                  PathPointDistSq(i, j) <= cfg.SCATTER_OUTER * cfg.SCATTER_OUTER

\* a finished run with a placement of the tree pass and one of the general
\* pass, whose sample points include one nearer to the path than
\* SCATTER_INNER and one farther than SCATTER_OUTER, both outside the clearings
C26_Witness ==
    /\ pc = "done"
    /\ \E i \in 1..Len(placements) : placed_by[i] = "tree"
    /\ \E i \in 1..Len(placements) : placed_by[i] = "general"
    /\ \E k \in 1..Len(poisson_points) :
          /\ ~is_in_clearing(poisson_points[k][1], poisson_points[k][2], clearings)
          /\ MinDistSq(poisson_points[k][1], poisson_points[k][2], main_path, 1)
                 < cfg.SCATTER_INNER * cfg.SCATTER_INNER
    /\ \E k \in 1..Len(poisson_points) :
          /\ ~is_in_clearing(poisson_points[k][1], poisson_points[k][2], clearings)
          /\ MinDistSq(poisson_points[k][1], poisson_points[k][2], main_path, 1)
                 > cfg.SCATTER_OUTER * cfg.SCATTER_OUTER

\* C27: the ground-cover pass leaves the ledger placed_positions as it is;
\* none of its placements is strictly inside a clearing or nearer than 1.0
\* (50 in 1/50 unit) to a position of the ledger. (That it tests no spacing
\* of a role shows in the state of C27_Witness.)
C27_GroundCover ==
    /\ [][pc = "grass" => placed_positions' = placed_positions]_vars
    /\ [](\A i \in 1..Len(placements) :
            placed_by[i] = "grass" =>
                /\ ~is_in_clearing(placements[i].x, placements[i].z, clearings)
                /\ \A k \in 1..Len(placed_positions) :
                      distance_squared(placements[i].x, placements[i].z,
                                       placed_positions[k][1],
                                       placed_positions[k][2]) >= 50 * 50)

\* a finished run with a ground-cover placement nearer to a recorded tree
\* than the tree's min_spacing, and a ground-cover point that was skipped
\* because it is inside a clearing or nearer than 1.0 to a ledger position
C27_Witness ==
    /\ pc = "done"
    /\ \E i \in 1..Len(placements), k \in 1..Len(placed_positions) :
          /\ placed_by[i] = "grass"
          /\ distance_squared(placements[i].x, placements[i].z,
                              placed_positions[k][1], placed_positions[k][2])
                 < placed_positions[k][3] * placed_positions[k][3]
    /\ \E j \in 1..Len(grass_points) :
          \/ is_in_clearing(grass_points[j][1], grass_points[j][2], clearings)
          \/ \E k \in 1..Len(placed_positions) :
                distance_squared(grass_points[j][1], grass_points[j][2],
                                 placed_positions[k][1], placed_positions[k][2])
                    < 50 * 50

-----------------------------------------------------------------------------
(* generate_clearings on its own: paths of 1, 2 and 17 points, the draws    *)
(* free on the short paths and seeded on the long one                      *)

ClearingSeeds == 1..12

ClearingPaths ==
    { << <<0, 600>> >>,
      << <<0, 0>>, <<0, 50>> >>,
      [i \in 1..17 |-> <<10 * (i % 3), 100 * (i - 1)>>] }

InitClearings ==
    /\ cfg = DefaultCfg
    /\ rng \in {Free} \cup {RngSeed(seed) : seed \in ClearingSeeds}
    /\ PoissonIdle
    /\ PathIdle
    /\ SelectIdle
    /\ CollisionIdle
    /\ TerrainIdle
    /\ PlacementIdle
    /\ MainIdle

\* generate_placements up to its call of generate_clearings(path_pts)
CallGenerateClearings ==
    \E path \in ClearingPaths :
        /\ (rng = Free) = (Len(path) <= 2)
        /\ PlacementBegin(path, <<>>)

NextClearings ==
    \/ CallGenerateClearings
    \/ ClearingStep

SpecClearings == InitClearings /\ [][NextClearings]_vars

-----------------------------------------------------------------------------
(* Claims about generate_clearings (checked under SpecClearings)           *)

\* clearing_interval of the run
ClearingInterval == IF Len(main_path) \div 8 > 1 THEN Len(main_path) \div 8 ELSE 1

\* C28: every pond has the centre of a clearing of the run and a radius
\* strictly smaller than that clearing's; there are never more ponds than
\* clearings; the loop visits the path indices 0, k, 2k, ... with
\* k = max(1, len(path) // 8) and creates at most one clearing, and with it
\* at most one pond, per index visited; and every clearing radius is within
\* 30% of CLEARING_RADIUS.
C28_PondsAndClearings ==
    /\ [](/\ \A p \in 1..Len(ponds) :
                \E c \in 1..Len(clearings) :
                    /\ ponds[p][1] = clearings[c][1]
                    /\ ponds[p][2] = clearings[c][2]
                    /\ ponds[p][3] < clearings[c][3]
          /\ Len(ponds) <= Len(clearings)
          /\ clearing_i % ClearingInterval = 0
          /\ Len(clearings) <= clearing_i \div ClearingInterval
          /\ \A c \in 1..Len(clearings) :
                /\ 10 * clearings[c][3] >= 7 * cfg.CLEARING_RADIUS
                /\ 10 * clearings[c][3] <= 13 * cfg.CLEARING_RADIUS)
    /\ [][pc = "clearings" =>
            /\ clearing_i' = clearing_i + ClearingInterval
            /\ Len(clearings') <= Len(clearings) + 1
            /\ Len(ponds') - Len(ponds) <= Len(clearings') - Len(clearings)
            /\ Len(ponds') >= Len(ponds)
         ]_vars

\* generate_clearings' loop is over on the path of 17 points (interval 2, 9
\* indices visited): three clearings or more, a pond among them and a
\* clearing that is no pond
C28_Witness ==
    /\ pc = "clearings"
    /\ Len(main_path) = 17
    /\ clearing_i = 18
    /\ Len(clearings) >= 3
    /\ Len(ponds) >= 1
    /\ Len(ponds) < Len(clearings)

\* the roles of the ASSET_PROPERTIES table
TableRoles == DOMAIN ASSET_PROPERTIES

\* C29: a satellite is accepted only at a distance from its own parent of at
\* least the parent's min_spacing, hence only around a parent whose
\* min_spacing is at most 2.5 times the satellite role's; in the
\* ASSET_PROPERTIES table every tree or bush role has a min_spacing above 2.5
\* times that of every fern or grass role; so a run whose roles are all of
\* that table has no satellite in its placement list.
C29_NoSatelliteNearParent ==
    /\ [][pc = "cluster" /\ Len(placements') = Len(placements) + 1 =>
            LET p == placements'[Len(placements')]
                s == get_asset_props(p.role).min_spacing
                parent_spacing == get_asset_props(sat_parent[3]).min_spacing
            IN  /\ distance_squared(p.x, p.z, sat_parent[1], sat_parent[2])
                       >= parent_spacing * parent_spacing
                /\ 2 * parent_spacing <= 5 * s
         ]_vars
    /\ [](\A parent \in TableRoles, sat \in TableRoles :
            ( /\ Contains(parent, "tree") \/ Contains(parent, "bush")
              /\ Contains(sat, "fern") \/ Contains(sat, "grass") ) =>
                2 * ASSET_PROPERTIES[parent].min_spacing
                    > 5 * ASSET_PROPERTIES[sat].min_spacing)
    /\ []((\A k \in 1..Len(available) : available[k] \in TableRoles) =>
            \A i \in 1..Len(placements) : placed_by[i] # "satellite")

\* a finished run whose last add_cluster_objects call, around a tree of the
\* general pass with grass_1 as the only candidate, made all its attempts and
\* placed nothing
C29_Witness ==
    /\ pc = "done"
    /\ sat_parent[3] = "new_tree_pack"
    /\ cluster_candidates = <<"grass_1">>
    /\ sat_left = 0
    /\ \E i \in 1..Len(placements) :
          /\ placed_by[i] = "general"
          /\ placements[i].x = sat_parent[1]
          /\ placements[i].z = sat_parent[2]
    /\ \A i \in 1..Len(placements) : placed_by[i] # "satellite"

-----------------------------------------------------------------------------
(* generate_placements called twice with the same main path and roles, from *)
(* the same generator state and an empty terrain cache, the two calls with  *)
(* any two values of secondary_paths                                       *)

\* the secondary_paths arguments: None, a path through the scatter band of
\* the main path, and two paths
SecondaryPathValues ==
    { <<>>,
      << << <<-150, 600>>, <<-100, 650>>, <<0, 750>> >> >>,
      << << <<0, 600>>, <<0, 475>> >>, << <<125, 600>>, <<200, 600>> >> >> }

\* SEED of the runs
SecondarySeeds == {42, 53, 18, 7}

SecondaryRoles ==
    { <<"new_tree_pack", "bush_round_1", "flower_1">>,
      <<"bush_round_1", "grass_1">> }

InitSecondary ==
    /\ cfg \in {[PlacementCfg(12) EXCEPT !.SEED = seed] : seed \in SecondarySeeds}
    /\ rng = RngSeed(cfg.SEED)
    /\ PoissonIdle
    /\ PathIdle
    /\ SelectIdle
    /\ CollisionIdle
    /\ TerrainIdle
    /\ PlacementIdle
    /\ main_pc = "off"
    /\ run = 1
    /\ world = [exact |-> <<>>, fuzzy |-> {}, new_trees |-> <<>>]
    /\ tscn_paths = <<>>
    /\ secondary_paths \in SecondaryPathValues
    /\ first_run = <<>>

\* a caller's generate_placements(path_pts, tscn_paths, secondary_paths),
\* secondary_paths the one of the state
CallGeneratePlacementsSecondary ==
    /\ run = 1
    /\ \E path \in PlacementPaths, roles \in SecondaryRoles :
           PlacementBegin(path, roles)

\* the caller restores the generator state, clears the terrain cache and
\* calls generate_placements again with the same path_pts and tscn_paths and
\* any secondary_paths
CallAgainOtherSecondary ==
    /\ pc = "done"
    /\ run = 1
    /\ run' = 2
    /\ first_run' = Outputs
    /\ secondary_paths' \in SecondaryPathValues
    /\ rng' = RngSeed(cfg.SEED)
    /\ ClearTerrainCache
    /\ placements' = <<>>
    /\ placed_by' = <<>>
    /\ placed_positions' = <<>>
    /\ clearings' = <<>>
    /\ ponds' = <<>>
    /\ clearing_i' = 0
    /\ poisson_points' = <<>> /\ grass_points' = <<>> /\ pt_i' = 0
    /\ sat_parent' = <<0, 0, "">> /\ sat_left' = 0
    /\ cluster_candidates' = <<>>
    /\ pc' = "clearings"
    /\ UNCHANGED <<cfg, main_path, available, poissonVars, pathVars,
                   selectVars, t_pc, t_args, t_height, first_returned,
                   t_repeated, collisionVars, main_pc, world, tscn_paths>>

NextSecondary ==
    \/ CallGeneratePlacementsSecondary
    \/ CallAgainOtherSecondary
    \/ ClearingStep
    \/ SamplePoints
    \/ PoissonPick
    \/ PoissonTry
    \/ PoissonExhaust
    \/ PoissonReturn
    \/ TreePassBegin
    \/ TreeStep
    \/ TreePassEnd
    \/ GeneralStep
    \/ SatelliteStep
    \/ GeneralPassEnd
    \/ GrassPassBegin
    \/ GrassStep
    \/ GrassPassEnd

SpecSecondary == InitSecondary /\ [][NextSecondary]_vars

-----------------------------------------------------------------------------
(* Claims about the secondary paths (checked under SpecSecondary)          *)

\* the points of all the secondary paths of the state
SecondaryPoints ==
    UNION { {secondary_paths[i][j] : j \in 1..Len(secondary_paths[i])} :
            i \in 1..Len(secondary_paths) }

\* C30: generate_placements called again from the same generator state and
\* terrain cache with the same main path and roles returns the same
\* placements and ponds, whatever the two values of secondary_paths.
C30_SecondaryPathsIgnored ==
    (run = 2 /\ pc = "done") =>
        /\ placements = first_run.placements
        /\ ponds = first_run.ponds

\* the second call, with secondary paths other than the first call's, has
\* returned a placement list with a placement nearer than SCATTER_INNER to
\* a point of a secondary path
C30_Witness ==
    /\ run = 2
    /\ pc = "done"
    /\ secondary_paths # first_run.secondary_paths
    /\ \E i \in 1..Len(placements) : \E q \in SecondaryPoints :
          /\ placed_by[i] \in {"tree", "general"}
          /\ distance_squared(placements[i].x, placements[i].z, q[1], q[2])
                 < cfg.SCATTER_INNER * cfg.SCATTER_INNER

====
